---- MODULE Spec2Model ----
(***************************************************************************)
(* The spectrum analysis engine of rustkorg: the SpectrumAnalyzer          *)
(* lifecycle (start / stop / drop / get_data), the capture thread          *)
(* run_analyzer, and the consumer side (MidiVolumeApp::update reading the  *)
(* snapshot, render_spectrum_visualizer smoothing it).                     *)
(*                                                                         *)
(* Numbers.  f32 values in [0,1] are fixed-point integers in 0..Unit.      *)
(* One hop of HOP_SIZE stereo samples is represented by one amplitude      *)
(* level per channel, so a ring buffer of FFT_SIZE samples is a sequence   *)
(* of FFT_SIZE \div HOP_SIZE hop blocks and ring_pos stays a multiple of   *)
(* HOP_SIZE.  The model tracks bands 1..MaxBand of the NUM_BANDS bands     *)
(* (the code treats every band index alike in the parts modelled here).    *)
(*                                                                         *)
(* Specifications.  Spec is the whole program; CaptureSpec and LiveSpec    *)
(* the analyzer without frames; RingSpec the ring buffers sample by        *)
(* sample; DecaySpec and DecayLive one capture thread on a programme that  *)
(* falls silent; UiSpec the frames over a stopped analyzer; CallSpec the   *)
(* pure functions of the band index, calculate_bands bin by bin and the    *)
(* displayed peak in f32; LockSpec and LockLive the analyzer with its two  *)
(* mutexes taken and released in separate steps; ScrollSpec the waterfall  *)
(* over a long run of frames; AppSpec the frames of the application that   *)
(* restart the analyzer; MuteSpec the mute buttons of the sink faders.     *)
(***************************************************************************)
EXTENDS Integers, Sequences, FiniteSets, TLC

\* ---- program constants -------------------------------------------------
NUM_BANDS == 32
FFT_SIZE == 512
HOP_SIZE == 128
WATERFALL_HISTORY == 128
\* f32 1.0 in fixed point
Unit == 1000
\* peak_decay = 0.92, in fixed point
peak_decay == 920

\* ---- bounds of the model -----------------------------------------------
\* calls of start() (= capture threads ever spawned)
MaxStarts == 2
\* successful reads per capture thread
MaxHops == 2
\* frames of MidiVolumeApp::update (calls of get_data)
MaxFrames == 1
\* bands tracked, out of NUM_BANDS
MaxBand == 1
\* hops in a row with a band at 0 that the history of the peak tracker counts
MaxQuietHops == 16

\* ---- input sets ---------------------------------------------------------
\* the hops of stereo samples a monitor source delivers, each as <<left level,
\* right level>> (0 = silence, Unit = full scale): every source plays a stationary
\* signal, the default sink's monitor at full scale on the left and any other one,
\* amplified beyond full scale, on the right
MaxAmplitude == 4 * Unit
StereoHops(source) ==
    IF source = "@DEFAULT_SINK@.monitor" THEN {<<Unit, 0>>} ELSE {<<0, MaxAmplitude>>}
\* sink names passed to start()
SinkNames == {"master_sink", "alsa_out"}
\* predicted_dt of a frame, in fixed point (seconds * Unit)
DTs == {16, 60}

Bands == 1..MaxBand
Threads == 1..MaxStarts
Blocks == FFT_SIZE \div HOP_SIZE
Zeros == [i \in Bands |-> 0]
NoHop == <<0, 0>>

VARIABLES
    \* SpectrumAnalyzer fields
    data,              \* Arc<Mutex<SpectrumData>>: the shared snapshot
    data_lock,         \* holder of the snapshot mutex: 0 free, t = capture thread t
    stop_flag,         \* Arc<Mutex<bool>>
    handle,            \* Option<JoinHandle>: 0 = None, t = Some(thread t)
    \* the capture threads, by spawn order: pc and the locals of run_analyzer
    th,
    \* the owner (MidiVolumeApp / any single caller)
    opc,               \* position of the owner
    caller,            \* which call is running stop(): "start", "stop", "drop"
    sink_name,         \* argument of the running start()
    spectrum_data,     \* ui_state.spectrum_data: the last get_data() result
    visualizer_state,  \* ui_state.visualizer_state
    \* history variables (not program state)
    spawned,           \* number of threads spawned so far
    last_op,           \* last lifecycle call that returned
    data_hop,          \* for each array of data: <<thread, hop>> that wrote it
    frames,            \* number of frames so far
    got_info,          \* what the last get_data() returned, and when
    \* parts of the program run in isolation (constant in the specifications of
    \* the whole analyzer)
    capture,           \* run_analyzer's ring buffers and cursor, sample by sample
    call,              \* the latest call of a pure function: its argument and result
    app,               \* MidiVolumeApp: the fields its frame and its mute buttons use
    \* the holder of the stop-flag mutex: 0 free, t = capture thread t, OwnerId the
    \* owner (0 in every state of the specifications that take and release it
    \* within one step)
    stop_lock

vars == <<data, data_lock, stop_flag, handle, th, opc, caller, sink_name,
          spectrum_data, visualizer_state, spawned, last_op, data_hop, frames,
          got_info, capture, call, app, stop_lock>>

\* ---- SpectrumData / VisualizerState ------------------------------------
SpectrumDataDefault ==
    [bands |-> Zeros, peaks |-> Zeros, bands_right |-> Zeros,
     peaks_right |-> Zeros, running |-> FALSE]

VisualizerStateDefault ==
    [display_bands |-> Zeros, display_peaks |-> Zeros,
     display_bands_right |-> Zeros, display_peaks_right |-> Zeros,
     waterfall_history |-> [r \in 0..(WATERFALL_HISTORY - 1) |-> Zeros],
     waterfall_pos |-> 0]

DataHopDefault ==
    [bands |-> NoHop, peaks |-> NoHop, bands_right |-> NoHop, peaks_right |-> NoHop]

\* ---- capture thread locals ----------------------------------------------
\* a thread that was not spawned yet
ThreadNone ==
    [pc |-> "none", source_name |-> "", simple |-> "none",
     ring_buffer_left |-> [b \in 1..Blocks |-> 0],
     ring_buffer_right |-> [b \in 1..Blocks |-> 0],
     ring_pos |-> 0,
     read_buffer |-> <<0, 0>>,
     peak_values_left |-> Zeros, peak_values_right |-> Zeros,
     bands_left |-> Zeros, bands_right |-> Zeros,
     peaks_left |-> Zeros, peaks_right |-> Zeros,
     hops |-> 0,
     after_stop_reads |-> 0, after_stop_pubs |-> 0,
     silent_reads |-> 0,
     quiet_hops_left |-> Zeros, quiet_hops_right |-> Zeros,
     quiet_from_left |-> Zeros, quiet_from_right |-> Zeros]

\* a thread that returned from run_analyzer: its locals are gone
ThreadExited(simple) == [ThreadNone EXCEPT !.pc = "done", !.simple = simple]

Alive(t) == th[t].pc \notin {"none", "done"}

get_monitor_source(name) ==
    IF name = "master_sink" \/ name = ""
    THEN "@DEFAULT_SINK@.monitor"
    ELSE name \o ".monitor"

\* the history of one get_data() call: whether the four arrays it returned were
\* written by one hop (or are all initial), whether they were written by a thread
\* other than the one of the latest start(), and the lifecycle call it followed
GotInfo(hop, after, nspawned) ==
    [whole |-> /\ hop.bands = hop.peaks
               /\ hop.bands = hop.bands_right
               /\ hop.bands = hop.peaks_right,
     stale |-> \E tag \in {hop.bands, hop.peaks, hop.bands_right, hop.peaks_right} :
                  tag[1] \notin {0, nspawned},
     after |-> after]

\* a part that is not run in isolation
NotRun == "not run"

\* the analyzer after SpectrumAnalyzer::new() and the UI state after its Default
AnalyzerInit ==
    /\ data = SpectrumDataDefault
    /\ data_lock = 0
    /\ stop_flag = FALSE
    /\ handle = 0
    /\ th = [t \in Threads |-> ThreadNone]
    /\ opc = "idle"
    /\ caller = "none"
    /\ sink_name = ""
    /\ spectrum_data = SpectrumDataDefault
    /\ visualizer_state = VisualizerStateDefault
    /\ spawned = 0
    /\ last_op = "new"
    /\ data_hop = DataHopDefault
    /\ frames = 0
    /\ got_info = GotInfo(DataHopDefault, "new", 0)
    /\ stop_lock = 0

Init ==
    /\ AnalyzerInit
    /\ capture = NotRun
    /\ call = NotRun
    /\ app = NotRun


\* ---- variable groups ------------------------------------------------------
ownerLocals == <<caller, sink_name>>
uiVars == <<spectrum_data, visualizer_state, got_info, frames>>
analyzerShared == <<data, data_lock, stop_flag, data_hop>>
benchVars == <<capture, call, app, stop_lock>>

\* ---- SpectrumAnalyzer::stop (spectrum.rs 89-102) ---------------------------
\* the owner enters stop(): directly, from start() (line 66) or from drop (line 118)
OwnerCallStop ==
    /\ opc = "idle"
    /\ opc' = "stop_flag"
    /\ caller' = "stop"
    /\ UNCHANGED <<benchVars, analyzerShared, handle, th, sink_name, uiVars, spawned, last_op>>

OwnerDrop ==
    /\ opc = "idle"
    /\ opc' = "stop_flag"
    /\ caller' = "drop"
    /\ UNCHANGED <<benchVars, analyzerShared, handle, th, sink_name, uiVars, spawned, last_op>>

\* lines 90-92: *stop = true
StopSetFlag ==
    /\ opc = "stop_flag"
    /\ stop_flag' = TRUE
    /\ opc' = "stop_running"
    /\ UNCHANGED <<benchVars, data, data_lock, data_hop, handle, th, ownerLocals, uiVars,
                   spawned, last_op>>

StopSetRunning_skip ==
    /\ opc = "stop_running"
    /\ opc' = "stop_join"
    /\ UNCHANGED <<benchVars, analyzerShared, handle, th, ownerLocals, uiVars, spawned, last_op>>

\* lines 94-96: d.running = false, under the snapshot lock
StopSetRunning ==
    /\ opc = "stop_running"
    /\ data_lock = 0
    /\ data' = [data EXCEPT !.running = FALSE]
    /\ opc' = "stop_join"
    /\ UNCHANGED <<benchVars, data_lock, stop_flag, data_hop, handle, th, ownerLocals, uiVars,
                   spawned, last_op>>

\* where stop() returns to
StopReturn ==
    /\ opc' = CASE caller = "start" -> "start_reset"
                [] caller = "stop" -> "idle"
                [] OTHER -> "dropped"
    /\ last_op' = CASE caller = "start" -> last_op
                    [] caller = "stop" -> "stop"
                    [] OTHER -> "drop"
    /\ caller' = IF caller = "start" THEN caller ELSE "none"
    /\ UNCHANGED sink_name

StopJoin_nojoin ==
    /\ opc = "stop_join"
    /\ handle' = 0
    /\ StopReturn
    /\ UNCHANGED <<benchVars, analyzerShared, th, uiVars, spawned>>

\* lines 99-101: if let Some(handle) = self.handle.take() { handle.join() }
StopJoin ==
    /\ opc = "stop_join"
    /\ handle # 0 => th[handle].pc = "done"
    /\ handle' = 0
    /\ StopReturn
    /\ UNCHANGED <<benchVars, analyzerShared, th, uiVars, spawned>>

\* ---- SpectrumAnalyzer::start (spectrum.rs 64-86) ---------------------------
\* line 66: self.stop()
OwnerCallStart(name) ==
    /\ opc = "idle"
    /\ spawned < MaxStarts
    /\ opc' = "stop_flag"
    /\ caller' = "start"
    /\ sink_name' = name
    /\ UNCHANGED <<benchVars, analyzerShared, handle, th, uiVars, spawned, last_op>>

StartResetFlag_keep ==
    /\ opc = "start_reset"
    /\ opc' = "start_spawn"
    /\ UNCHANGED <<benchVars, analyzerShared, handle, th, ownerLocals, uiVars, spawned,
                   last_op>>

\* lines 69-71: *stop = false
StartResetFlag ==
    /\ opc = "start_reset"
    /\ stop_flag' = FALSE
    /\ opc' = "start_spawn"
    /\ UNCHANGED <<benchVars, data, data_lock, data_hop, handle, th, ownerLocals, uiVars,
                   spawned, last_op>>

\* lines 73-81: thread::spawn(run_analyzer(..., &sink_monitor)); self.handle = Some(handle)
StartSpawn ==
    /\ opc = "start_spawn"
    /\ spawned' = spawned + 1
    /\ th' = [th EXCEPT ![spawned + 1] =
                 [ThreadNone EXCEPT !.pc = "open",
                                    !.source_name = get_monitor_source(sink_name)]]
    /\ handle' = spawned + 1
    /\ opc' = "start_running"
    /\ UNCHANGED <<benchVars, analyzerShared, ownerLocals, uiVars, last_op>>

\* lines 83-85: d.running = true, under the snapshot lock
StartSetRunning ==
    /\ opc = "start_running"
    /\ data_lock = 0
    /\ data' = [data EXCEPT !.running = TRUE]
    /\ opc' = "idle"
    /\ last_op' = "start"
    /\ caller' = "none"
    /\ sink_name' = ""
    /\ UNCHANGED <<benchVars, data_lock, stop_flag, data_hop, handle, th, uiVars, spawned>>

\* ---- SpectrumAnalyzer::get_data (spectrum.rs 105-107), app.rs 628 ----------
GetData_nolock ==
    /\ opc = "idle"
    /\ spectrum_data' = data
    /\ got_info' = GotInfo(data_hop, last_op, spawned)

\* self.data.lock().map(|d| d.clone()): a copy taken under the snapshot lock
GetData ==
    /\ opc = "idle"
    /\ data_lock = 0
    /\ spectrum_data' = data
    /\ got_info' = GotInfo(data_hop, last_op, spawned)

\* ---- pure helpers of run_analyzer ------------------------------------------
Min(a, b) == IF a < b THEN a ELSE b
Max(a, b) == IF a > b THEN a ELSE b
Clamp(x, lo, hi) == Max(lo, Min(x, hi))

\* lines 212-219: the HOP_SIZE samples of one read go to ring_pos .. ring_pos+HOP_SIZE-1
PushHop(ring_buffer, ring_pos, level) ==
    [ring_buffer EXCEPT ![(ring_pos \div HOP_SIZE) + 1] = level]

\* line 218, HOP_SIZE times: ring_pos = (ring_pos + 1) % FFT_SIZE
AdvancePos(ring_pos) == (ring_pos + HOP_SIZE) % FFT_SIZE

\* lines 317-320: read the ring in order from ring_pos, idx = (ring_pos + i) % FFT_SIZE
RingWindow(ring_buffer, ring_pos) ==
    [k \in 1..Blocks |->
        ring_buffer[(((ring_pos + (k - 1) * HOP_SIZE) % FFT_SIZE) \div HOP_SIZE) + 1]]

RECURSIVE SeqMax(_)
SeqMax(s) == IF s = <<>> THEN 0 ELSE Max(Head(s), SeqMax(Tail(s)))

RECURSIVE Pow10(_)
Pow10(n) == IF n = 0 THEN 1 ELSE 10 * Pow10(n - 1)

\* line 293: db = 20.0 * (avg + 1e-10).log10(), for an average magnitude avg >= 0
\* in fixed point, rounded down to a multiple of 10 dB: -200 for avg = 0 (the
\* 1e-10), else the largest step d with 10^(d/20) <= avg / Unit, that is, with
\* Unit^2 * 10^(d/10) <= avg^2
DecibelSteps == {10 * j : j \in (0 - 6)..3}
Decibels(avg) ==
    IF avg = 0 THEN 0 - 200
    ELSE LET reached == {d \in DecibelSteps : Pow10(6 + d \div 10) <= avg * avg}
         IN CHOOSE d \in reached : \A e \in reached : e <= d

Normalized_noclamp(db) == ((db + 60) * Unit) \div 60

\* line 295: ((db + 60.0) / 60.0).clamp(0.0, 1.0)
Normalized(db) == Clamp(((db + 60) * Unit) \div 60, 0, Unit)

\* lines 293-295 for every average magnitude up to MaxAmplitude
BandOfMagnitude == [avg \in 0..MaxAmplitude |-> Normalized(Decibels(avg))]

\* lines 256-300: one magnitude in [0,1] per band.  The windowed transform and the
\* averaging over the band's bins are abstracted: the average magnitude of every
\* band is taken to be the window's largest amplitude.  Lines 293-295 are kept.
calculate_bands(window) == [band \in Bands |-> BandOfMagnitude[SeqMax(window)]]

\* lines 303-327
calculate_bands_from_ring(ring_buffer, ring_pos) ==
    calculate_bands(RingWindow(ring_buffer, ring_pos))

\* an f32 product, rounded to the nearest representable value
RoundDiv(x, d) == (2 * x + d) \div (2 * d)

UpdatePeak_hold(band, peak) == IF band > peak THEN band ELSE peak

UpdatePeak_slow(band, peak) ==
    IF band > peak THEN band ELSE RoundDiv(peak * (peak_decay + 30), Unit)

\* lines 230-234: instant attack, decay by peak_decay
UpdatePeak(band, peak) ==
    IF band > peak THEN band ELSE RoundDiv(peak * peak_decay, Unit)

\* history of the peak tracker, per band: how many hops in a row the band was 0
\* (counted up to MaxQuietHops), and the peak stored before the first of them
QuietHops(band, n) == IF band = 0 THEN Min(n + 1, MaxQuietHops) ELSE 0
QuietFrom(band, peak, from, n) == IF band # 0 THEN 0 ELSE IF n = 0 THEN peak ELSE from

SetTh(t, rec) == th' = [th EXCEPT ![t] = rec]

\* ---- run_analyzer (spectrum.rs 133-253) ------------------------------------
\* lines 157-167: Simple::new(...) succeeds: simple is bound to source_name;
\* lines 177-189: the locals
ThreadOpenOk(t) ==
    /\ th[t].pc = "open"
    /\ SetTh(t, [th[t] EXCEPT !.pc = "check", !.simple = "ok"])
    /\ UNCHANGED <<benchVars, analyzerShared, handle, opc, ownerLocals, uiVars, spawned, last_op>>

\* lines 168-174: Simple::new(...) fails: d.running = false under the lock, return
ThreadOpenFail(t) ==
    /\ th[t].pc = "open"
    /\ data_lock = 0
    /\ data' = [data EXCEPT !.running = FALSE]
    /\ SetTh(t, ThreadExited("err"))
    /\ UNCHANGED <<benchVars, data_lock, stop_flag, data_hop, handle, opc, ownerLocals, uiVars,
                   spawned, last_op>>

ThreadCheckStop_ignore(t) ==
    /\ th[t].pc = "check"
    /\ stop_flag
    /\ SetTh(t, [th[t] EXCEPT !.pc = "read"])
    /\ UNCHANGED <<benchVars, analyzerShared, handle, opc, ownerLocals, uiVars, spawned, last_op>>

\* lines 193-197: the stop flag is set: break, and run_analyzer returns
ThreadCheckStop(t) ==
    /\ th[t].pc = "check"
    /\ stop_flag
    /\ SetTh(t, ThreadExited("ok"))
    /\ UNCHANGED <<benchVars, analyzerShared, handle, opc, ownerLocals, uiVars, spawned, last_op>>

ThreadCheckContinue_locked(t) ==
    /\ th[t].pc = "check"
    /\ ~stop_flag
    /\ data_lock = 0
    /\ data_lock' = t
    /\ SetTh(t, [th[t] EXCEPT !.pc = "read"])
    /\ UNCHANGED <<benchVars, data, stop_flag, data_hop, handle, opc, ownerLocals, uiVars,
                   spawned, last_op>>

\* lines 193-197: the stop flag is clear: go on to the blocking read
ThreadCheckContinue(t) ==
    /\ th[t].pc = "check"
    /\ ~stop_flag
    /\ SetTh(t, [th[t] EXCEPT !.pc = "read"])
    /\ UNCHANGED <<benchVars, analyzerShared, handle, opc, ownerLocals, uiVars, spawned, last_op>>

\* counts the reads and publications completed while the stop flag is set
\* (saturating at 2: the history only has to tell "more than one")
CountAfterStop(n) == IF stop_flag THEN Min(n + 1, 2) ELSE n

\* line 207: simple.read(...) returns Ok with one hop of stereo samples; the
\* history numbers the hop `hop` and counts the all-zero hops read in a row (up to
\* Blocks, the number of hops the ring buffers hold)
ReadOk(t, left, right, hop) ==
    /\ th[t].pc = "read"
    /\ SetTh(t, [th[t] EXCEPT !.pc = "process",
                              !.read_buffer = <<left, right>>,
                              !.hops = hop,
                              !.after_stop_reads = CountAfterStop(@),
                              !.silent_reads =
                                  IF <<left, right>> = NoHop THEN Min(@ + 1, Blocks) ELSE 0])
    /\ UNCHANGED <<benchVars, analyzerShared, handle, opc, ownerLocals, uiVars, spawned, last_op>>

\* the same, for at most MaxHops hops per thread
ThreadReadOk(t, left, right) ==
    /\ th[t].hops < MaxHops
    /\ ReadOk(t, left, right, th[t].hops + 1)

ThreadReadErr_break(t) ==
    /\ th[t].pc = "read"
    /\ SetTh(t, ThreadExited("ok"))
    /\ UNCHANGED <<benchVars, analyzerShared, handle, opc, ownerLocals, uiVars, spawned, last_op>>

\* line 207: simple.read(...) returns Err
ThreadReadErr(t) ==
    /\ th[t].pc = "read"
    /\ SetTh(t, [th[t] EXCEPT !.pc = "read_err",
                              !.after_stop_reads = CountAfterStop(@)])
    /\ UNCHANGED <<benchVars, analyzerShared, handle, opc, ownerLocals, uiVars, spawned, last_op>>

ThreadContinue_retry(t) ==
    /\ th[t].pc = "read_err"
    /\ SetTh(t, [th[t] EXCEPT !.pc = "read"])
    /\ UNCHANGED <<benchVars, analyzerShared, handle, opc, ownerLocals, uiVars, spawned, last_op>>

\* line 208: continue, to the top of the loop
ThreadContinue(t) ==
    /\ th[t].pc = "read_err"
    /\ SetTh(t, [th[t] EXCEPT !.pc = "check"])
    /\ UNCHANGED <<benchVars, analyzerShared, handle, opc, ownerLocals, uiVars, spawned, last_op>>

\* lines 211-243: deinterleave into the rings, compute the bands, update the peaks
ThreadProcess(t) ==
    /\ th[t].pc = "process"
    /\ LET me == th[t]
           ring_left == PushHop(me.ring_buffer_left, me.ring_pos, me.read_buffer[1])
           ring_right == PushHop(me.ring_buffer_right, me.ring_pos, me.read_buffer[2])
           pos == AdvancePos(me.ring_pos)
           bl == calculate_bands_from_ring(ring_left, pos)
           br == calculate_bands_from_ring(ring_right, pos)
           pl == [i \in Bands |-> UpdatePeak(bl[i], me.peak_values_left[i])]
           pr == [i \in Bands |-> UpdatePeak(br[i], me.peak_values_right[i])]
       IN SetTh(t, [me EXCEPT !.pc = "lock",
                              !.ring_buffer_left = ring_left,
                              !.ring_buffer_right = ring_right,
                              !.ring_pos = pos,
                              !.bands_left = bl, !.bands_right = br,
                              !.peak_values_left = pl, !.peak_values_right = pr,
                              !.peaks_left = pl, !.peaks_right = pr,
                              !.quiet_hops_left =
                                  [i \in Bands |-> QuietHops(bl[i], me.quiet_hops_left[i])],
                              !.quiet_hops_right =
                                  [i \in Bands |-> QuietHops(br[i], me.quiet_hops_right[i])],
                              !.quiet_from_left =
                                  [i \in Bands |->
                                      QuietFrom(bl[i], me.peak_values_left[i],
                                                me.quiet_from_left[i], me.quiet_hops_left[i])],
                              !.quiet_from_right =
                                  [i \in Bands |->
                                      QuietFrom(br[i], me.peak_values_right[i],
                                                me.quiet_from_right[i], me.quiet_hops_right[i])]])
    /\ UNCHANGED <<benchVars, analyzerShared, handle, opc, ownerLocals, uiVars, spawned, last_op>>

\* line 246: data.lock()
ThreadLock(t) ==
    /\ th[t].pc = "lock"
    /\ data_lock = 0
    /\ data_lock' = t
    /\ SetTh(t, [th[t] EXCEPT !.pc = "w_bands"])
    /\ UNCHANGED <<benchVars, data, stop_flag, data_hop, handle, opc, ownerLocals, uiVars,
                   spawned, last_op>>

ThreadWriteBands_whole(t) ==
    /\ th[t].pc = "w_bands"
    /\ data' = [data EXCEPT !.bands = th[t].bands_left, !.running = TRUE]
    /\ data_hop' = [data_hop EXCEPT !.bands = <<t, th[t].hops>>]
    /\ SetTh(t, [th[t] EXCEPT !.pc = "w_peaks"])
    /\ UNCHANGED <<benchVars, data_lock, stop_flag, handle, opc, ownerLocals, uiVars,
                   spawned, last_op>>

\* line 247: d.bands = bands_left
ThreadWriteBands(t) ==
    /\ th[t].pc = "w_bands"
    /\ data' = [data EXCEPT !.bands = th[t].bands_left]
    /\ data_hop' = [data_hop EXCEPT !.bands = <<t, th[t].hops>>]
    /\ SetTh(t, [th[t] EXCEPT !.pc = "w_peaks"])
    /\ UNCHANGED <<benchVars, data_lock, stop_flag, handle, opc, ownerLocals, uiVars,
                   spawned, last_op>>

\* line 248: d.peaks = peaks_left
ThreadWritePeaks(t) ==
    /\ th[t].pc = "w_peaks"
    /\ data' = [data EXCEPT !.peaks = th[t].peaks_left]
    /\ data_hop' = [data_hop EXCEPT !.peaks = <<t, th[t].hops>>]
    /\ SetTh(t, [th[t] EXCEPT !.pc = "w_bands_right"])
    /\ UNCHANGED <<benchVars, data_lock, stop_flag, handle, opc, ownerLocals, uiVars,
                   spawned, last_op>>

\* line 249: d.bands_right = bands_right
ThreadWriteBandsRight(t) ==
    /\ th[t].pc = "w_bands_right"
    /\ data' = [data EXCEPT !.bands_right = th[t].bands_right]
    /\ data_hop' = [data_hop EXCEPT !.bands_right = <<t, th[t].hops>>]
    /\ SetTh(t, [th[t] EXCEPT !.pc = "w_peaks_right"])
    /\ UNCHANGED <<benchVars, data_lock, stop_flag, handle, opc, ownerLocals, uiVars,
                   spawned, last_op>>

\* lines 250-252: d.peaks_right = peaks_right; the guard is dropped; next iteration
ThreadWritePeaksRight(t) ==
    /\ th[t].pc = "w_peaks_right"
    /\ data' = [data EXCEPT !.peaks_right = th[t].peaks_right]
    /\ data_hop' = [data_hop EXCEPT !.peaks_right = <<t, th[t].hops>>]
    /\ data_lock' = 0
    /\ SetTh(t, [th[t] EXCEPT !.pc = "check",
                              !.read_buffer = <<0, 0>>,
                              !.bands_left = Zeros, !.bands_right = Zeros,
                              !.peaks_left = Zeros, !.peaks_right = Zeros,
                              !.after_stop_pubs = CountAfterStop(@)])
    /\ UNCHANGED <<benchVars, stop_flag, handle, opc, ownerLocals, uiVars, spawned, last_op>>

ThreadNext(t) ==
    \/ ThreadOpenOk(t)
    \/ ThreadOpenFail(t)
    \/ ThreadCheckStop(t)
    \/ ThreadCheckContinue(t)
    \/ \E hop \in StereoHops(th[t].source_name) : ThreadReadOk(t, hop[1], hop[2])
    \/ ThreadReadErr(t)
    \/ ThreadContinue(t)
    \/ ThreadProcess(t)
    \/ ThreadLock(t)
    \/ ThreadWriteBands(t)
    \/ ThreadWritePeaks(t)
    \/ ThreadWriteBandsRight(t)
    \/ ThreadWritePeaksRight(t)

\* ---- display smoothing (panels/visualizer.rs) ------------------------------
\* lines 73-75: a + (b - a) * t.clamp(0.0, 1.0)
lerp_weighted(a, b, t) ==
    (a * (Unit - Clamp(t, 0, Unit))) \div Unit + (b * Clamp(t, 0, Unit)) \div Unit

lerp(a, b, t) == a + ((b - a) * Clamp(t, 0, Unit)) \div Unit

\* lines 47-59: instant attack, slow decay
DisplayPeak(current, target, dt) ==
    IF target > current THEN target ELSE lerp(current, target, 2 * dt)

Update_nowrap(state, target, dt) ==
    LET speed == 20 * dt
        combined == [i \in Bands |-> (target.bands[i] + target.bands_right[i]) \div 2]
    IN [display_bands |->
            [i \in Bands |-> lerp(state.display_bands[i], target.bands[i], Min(speed, Unit))],
        display_bands_right |->
            [i \in Bands |->
                lerp(state.display_bands_right[i], target.bands_right[i], Min(speed, Unit))],
        display_peaks |->
            [i \in Bands |-> DisplayPeak(state.display_peaks[i], target.peaks[i], dt)],
        display_peaks_right |->
            [i \in Bands |->
                DisplayPeak(state.display_peaks_right[i], target.peaks_right[i], dt)],
        waterfall_history |->
            [state.waterfall_history EXCEPT ![state.waterfall_pos] = combined],
        waterfall_pos |-> state.waterfall_pos + 1]

Update_two_rows(state, target, dt) ==
    LET u == Update_nowrap(state, target, dt)
        next == (state.waterfall_pos + 1) % WATERFALL_HISTORY
    IN [u EXCEPT !.waterfall_pos = next,
                 !.waterfall_history =
                     [u.waterfall_history EXCEPT
                         ![next] = u.waterfall_history[state.waterfall_pos]]]

\* lines 35-70: VisualizerState::update
Update(state, target, dt) ==
    LET speed == 20 * dt
        combined == [i \in Bands |-> (target.bands[i] + target.bands_right[i]) \div 2]
    IN [display_bands |->
            [i \in Bands |-> lerp(state.display_bands[i], target.bands[i], Min(speed, Unit))],
        display_bands_right |->
            [i \in Bands |->
                lerp(state.display_bands_right[i], target.bands_right[i], Min(speed, Unit))],
        display_peaks |->
            [i \in Bands |-> DisplayPeak(state.display_peaks[i], target.peaks[i], dt)],
        display_peaks_right |->
            [i \in Bands |->
                DisplayPeak(state.display_peaks_right[i], target.peaks_right[i], dt)],
        waterfall_history |->
            [state.waterfall_history EXCEPT ![state.waterfall_pos] = combined],
        waterfall_pos |-> (state.waterfall_pos + 1) % WATERFALL_HISTORY]

\* lines 92-98: fade out when disabled
FadeOut(state, dt) ==
    [state EXCEPT
        !.display_bands = [i \in Bands |-> lerp(state.display_bands[i], 0, 8 * dt)],
        !.display_peaks = [i \in Bands |-> lerp(state.display_peaks[i], 0, 8 * dt)],
        !.display_bands_right =
            [i \in Bands |-> lerp(state.display_bands_right[i], 0, 8 * dt)],
        !.display_peaks_right =
            [i \in Bands |-> lerp(state.display_peaks_right[i], 0, 8 * dt)]]

\* lines 78-99: the state update of render_spectrum_visualizer
render_spectrum_visualizer(spectrum, state, enabled, dt) ==
    IF enabled THEN Update(state, spectrum, dt) ELSE FadeOut(state, dt)

\* app.rs 627-634, panels/control.rs 23-36: one frame of MidiVolumeApp::update with
\* the spectrum shown: get_data(), then render_spectrum_visualizer with enabled = true
Render(dt) ==
    /\ GetData
    /\ frames' = frames + 1
    /\ visualizer_state' =
           render_spectrum_visualizer(spectrum_data', visualizer_state, TRUE, dt)
    /\ UNCHANGED <<benchVars, analyzerShared, handle, th, opc, ownerLocals, spawned, last_op>>

\* the same, for at most MaxFrames frames
FrameRender(dt) ==
    /\ frames < MaxFrames
    /\ Render(dt)

\* app.rs 627-628, panels/control.rs 23: one frame with cfg_show_spectrum off (or
\* another tab shown): get_data() alone
FrameNoRender ==
    /\ GetData
    /\ frames < MaxFrames
    /\ frames' = frames + 1
    /\ UNCHANGED <<benchVars, analyzerShared, handle, th, opc, ownerLocals, visualizer_state,
                   spawned, last_op>>

\* the owner's calls of start(), stop() and drop, and the steps inside them
LifecycleNext ==
    \/ \E name \in SinkNames : OwnerCallStart(name)
    \/ OwnerCallStop
    \/ OwnerDrop
    \/ StopSetFlag
    \/ StopSetRunning
    \/ StopJoin
    \/ StartResetFlag
    \/ StartSpawn
    \/ StartSetRunning

\* the owner's frames
FrameNext ==
    \/ \E dt \in DTs : FrameRender(dt)
    \/ FrameNoRender

CaptureNext == \E t \in Threads : ThreadNext(t)

Next ==
    \/ LifecycleNext
    \/ FrameNext
    \/ CaptureNext

Spec == Init /\ [][Next]_vars


\* the code's scheduling: the owner goes on executing a stop() it has entered, and
\* every spawned thread keeps being scheduled; a blocking read eventually returns
\* (ThreadReadOk or ThreadReadErr), which is the assumption of the claim on stop()
StopSteps == StopSetFlag \/ StopSetRunning \/ StopJoin

\* The analyzer alone: the owner calls start(), stop() and drop and takes no
\* frames (get_data() changes nothing the analyzer or its thread reads).
CaptureSpec == Init /\ [][LifecycleNext \/ CaptureNext]_vars

\* The analyzer alone under that scheduling.
LiveSpec ==
    /\ CaptureSpec
    /\ WF_vars(StopSteps)
    /\ WF_vars(CaptureNext)

\* ---- state descriptions used by the properties -------------------------------
AliveThreads == {t \in Threads : Alive(t)}
InStop == opc \in {"stop_flag", "stop_running", "stop_join"}
Publishing(t) == th[t].pc \in {"w_bands", "w_peaks", "w_bands_right", "w_peaks_right"}
RingNotEmpty(t) ==
    \E b \in 1..Blocks : th[t].ring_buffer_left[b] + th[t].ring_buffer_right[b] > 0
SameCaptureState(a, b) ==
    /\ a.ring_buffer_left = b.ring_buffer_left
    /\ a.ring_buffer_right = b.ring_buffer_right
    /\ a.ring_pos = b.ring_pos
    /\ a.peak_values_left = b.peak_values_left
    /\ a.peak_values_right = b.peak_values_right
    /\ a.simple = b.simple

\* ---- C1 -----------------------------------------------------------------------
\* C1: under any sequence of start(), stop() and drop by the single owner at most
\* one capture thread is alive, and start() spawns only when none is alive.
C1_AtMostOneCaptureThread ==
    /\ Cardinality(AliveThreads) <= 1
    /\ opc = "start_spawn" => AliveThreads = {}

\* a restart: the first thread published and exited, the second one is alive
C1_Witness ==
    /\ data_hop.bands[1] = 1
    /\ th[1].pc = "done"
    /\ Alive(2)

\* ---- C2 -----------------------------------------------------------------------
\* C2: when stop() has returned (called directly or by drop) the capture thread
\* has exited, nothing holds or writes the snapshot, running is false, and a
\* get_data() taken after that stop() returns running = false.
C2_StopReturnsJoined ==
    /\ (opc \in {"idle", "dropped"} /\ last_op \in {"stop", "drop"}) =>
           /\ AliveThreads = {}
           /\ handle = 0
           /\ data_lock = 0
           /\ ~data.running
    /\ got_info.after = "stop" => ~spectrum_data.running

\* stop() returned after a run that published, and get_data() was called after it
C2_Witness ==
    /\ opc = "idle"
    /\ last_op = "stop"
    /\ got_info.after = "stop"
    /\ data_hop.bands # NoHop
    /\ spawned > 0

\* ---- C3 -----------------------------------------------------------------------
\* C3: if the capture source cannot be opened, then once start() has returned and
\* the capture thread has exited, running is false.
C3_OpenFailureVisible ==
    \A t \in Threads :
        (opc = "idle" /\ last_op = "start" /\ handle = t
            /\ th[t].pc = "done" /\ th[t].simple = "err") => ~data.running

\* ---- C4 -----------------------------------------------------------------------
\* C4: every value returned by get_data() is a whole snapshot: its four arrays
\* were written by the same hop of the same thread, or are all initial.
C4_GetDataWhole ==
    /\ got_info.whole
    /\ data_lock = 0 =>
           /\ data_hop.bands = data_hop.peaks
           /\ data_hop.bands = data_hop.bands_right
           /\ data_hop.bands = data_hop.peaks_right

\* get_data() returned a published snapshot and the capture loop is about to
\* publish the next one
C4_Witness ==
    /\ frames > 0
    /\ spectrum_data.bands # Zeros \/ spectrum_data.bands_right # Zeros
    /\ \E t \in Threads : th[t].pc = "lock" /\ th[t].hops = 2

\* ---- C5 -----------------------------------------------------------------------
\* C5: once a start() has returned, get_data() returns no band or peak array that
\* was computed by the thread of an earlier start().
C5_NoStaleSnapshot == got_info.after = "start" => ~got_info.stale

\* ---- C6 -----------------------------------------------------------------------
\* C6: in a render tick whose snapshot has running = false, all displayed band and
\* peak values of both channels move toward zero at rate 8*dt (the fade-out),
\* whatever the snapshot's band and peak values are.
C6_FadeOutWhenStopped ==
    [][\A dt \in DTs :
          (FrameRender(dt) /\ ~spectrum_data'.running) =>
              LET faded == FadeOut(visualizer_state, dt)
              IN /\ visualizer_state'.display_bands = faded.display_bands
                 /\ visualizer_state'.display_peaks = faded.display_peaks
                 /\ visualizer_state'.display_bands_right = faded.display_bands_right
                 /\ visualizer_state'.display_peaks_right = faded.display_peaks_right]_vars

\* ---- C7 -----------------------------------------------------------------------
\* C7: a failed read leaves the ring buffers, the cursor, the peak state and the
\* shared snapshot as they were and the thread alive, back at the top of the loop.
C7_ReadFailureSkipsHop ==
    [][\A t \in Threads :
          /\ (th[t].pc = "read" /\ th'[t] # th[t] /\ th'[t].pc # "process") =>
                 /\ th'[t].pc = "read_err"
                 /\ SameCaptureState(th[t], th'[t])
                 /\ data' = data
                 /\ data_lock' = data_lock
          /\ (th[t].pc = "read_err" /\ th'[t] # th[t]) =>
                 /\ th'[t].pc = "check"
                 /\ SameCaptureState(th[t], th'[t])
                 /\ data' = data
                 /\ data_lock' = data_lock]_vars

\* a read has just failed in a thread whose ring buffers hold samples
C7_Witness ==
    \E t \in Threads : th[t].pc = "read_err" /\ RingNotEmpty(t) /\ th[t].hops < MaxHops

\* ---- C8 -----------------------------------------------------------------------
\* C8: while the stop flag is set a capture thread completes at most one read and
\* at most one publication, and its next flag check ends the loop.
C8_StopSeenWithinOneHop ==
    /\ [](\A t \in Threads : th[t].after_stop_reads <= 1 /\ th[t].after_stop_pubs <= 1)
    /\ [][\A t \in Threads :
             (stop_flag /\ th[t].pc = "check" /\ th'[t] # th[t]) => th'[t].pc = "done"]_vars

\* the stop flag was set during a hop, and the thread has published that hop
C8_Witness ==
    \E t \in Threads :
        th[t].pc = "check" /\ th[t].after_stop_pubs = 1 /\ th[t].after_stop_reads = 1

\* ---- C9 -----------------------------------------------------------------------
\* C9: if every blocking read eventually returns, every call of stop() eventually
\* returns, also when every read fails.
C9_StopReturns == InStop ~> ~InStop

\* stop() waits in join for a thread whose read has just failed
C9_Witness ==
    /\ opc = "stop_join"
    /\ handle # 0
    /\ th[handle].pc = "read_err"

MaxRingHops == 6

\* the stereo signals a source can deliver: the n-th stereo frame since the source
\* was opened carries n ("up") or -n ("down") on the left channel and twice that
\* on the right, so that every sample tells its arrival time and its channel
Signals == {"up", "down"}

\* line 182 as filled by one successful read (line 207): HOP_SIZE interleaved
\* stereo frames, the first of them being frame number `first` of the source
read_buffer(kind, first) ==
    [k \in 0..(2 * HOP_SIZE - 1) |->
        LET n == first + (k \div 2)
            left == IF kind = "up" THEN n ELSE 0 - n
        IN IF k % 2 = 0 THEN left ELSE 2 * left]

\* lines 177-183: the locals of run_analyzer before the loop, and the history of
\* the samples delivered so far, per channel
CaptureStart ==
    [ring_buffer_left |-> [p \in 0..(FFT_SIZE - 1) |-> 0],
     ring_buffer_right |-> [p \in 0..(FFT_SIZE - 1) |-> 0],
     ring_pos |-> 0,
     hops |-> 0,
     delivered_left |-> <<>>,
     delivered_right |-> <<>>]

DeinterleaveFrame_swapped(c, buffer, i) ==
    [c EXCEPT !.ring_pos = (c.ring_pos + 1) % FFT_SIZE,
              !.ring_buffer_left[(c.ring_pos + 1) % FFT_SIZE] = buffer[i * 2],
              !.ring_buffer_right[(c.ring_pos + 1) % FFT_SIZE] = buffer[i * 2 + 1],
              !.delivered_left = Append(@, buffer[i * 2]),
              !.delivered_right = Append(@, buffer[i * 2 + 1])]

\* lines 213-218, the body of the loop: left = read_buffer[i * 2]; right =
\* read_buffer[i * 2 + 1]; ring_buffer_left[ring_pos] = left;
\* ring_buffer_right[ring_pos] = right; ring_pos = (ring_pos + 1) % FFT_SIZE
DeinterleaveFrame(c, buffer, i) ==
    [c EXCEPT !.ring_buffer_left[c.ring_pos] = buffer[i * 2],
              !.ring_buffer_right[c.ring_pos] = buffer[i * 2 + 1],
              !.ring_pos = (c.ring_pos + 1) % FFT_SIZE,
              !.delivered_left = Append(@, buffer[i * 2]),
              !.delivered_right = Append(@, buffer[i * 2 + 1])]

\* line 212: for i in from..to, in increasing order of i.  The range is halved
\* and the first half is evaluated before the second (the test on half.ring_pos,
\* which always holds, does nothing else), so that the evaluation stays shallow.
RECURSIVE Deinterleave(_, _, _, _)
Deinterleave(c, buffer, from, to) ==
    IF to <= from THEN c
    ELSE IF to = from + 1 THEN DeinterleaveFrame(c, buffer, from)
    ELSE LET mid == (from + to) \div 2
             half == Deinterleave(c, buffer, from, mid)
         IN IF half.ring_pos < FFT_SIZE
            THEN Deinterleave(half, buffer, mid, to)
            ELSE half

\* lines 207-219: one successful read and the deinterleaving of its hop
ReadAndDeinterleave(kind) ==
    /\ capture.hops < MaxRingHops
    /\ capture' = [Deinterleave(capture, read_buffer(kind, capture.hops * HOP_SIZE + 1),
                                0, HOP_SIZE)
                       EXCEPT !.hops = @ + 1]
    /\ UNCHANGED <<analyzerShared, handle, th, opc, ownerLocals, uiVars, spawned,
                   last_op, call, app, stop_lock>>

\* lines 317-320: the ring read in order from the cursor, idx = (ring_pos + i) % FFT_SIZE
ReadFromCursor(ring_buffer, ring_pos) ==
    [i \in 1..FFT_SIZE |-> ring_buffer[(ring_pos + (i - 1)) % FFT_SIZE]]

\* the FFT_SIZE samples delivered last, in arrival order, behind the zeros the
\* buffer starts with
MostRecent(delivered) ==
    LET padded == [i \in 1..FFT_SIZE |-> 0] \o delivered
    IN SubSeq(padded, Len(padded) - FFT_SIZE + 1, Len(padded))

\* the ring positions a hop starting at cursor ring_pos writes
HopPositions(ring_pos) == {(ring_pos + i) % FFT_SIZE : i \in 0..(HOP_SIZE - 1)}

RingInit ==
    /\ AnalyzerInit
    /\ capture = CaptureStart
    /\ call = NotRun
    /\ app = NotRun

RingNext == \E kind \in Signals : ReadAndDeinterleave(kind)

\* run_analyzer's ring buffers alone, fed hop after hop
RingSpec == RingInit /\ [][RingNext]_vars

\* ---- C11 ----------------------------------------------------------------------
\* C11: after any number of successful hops, the FFT_SIZE ring positions of a
\* channel read from the shared cursor are the FFT_SIZE samples delivered last for
\* that channel, in arrival order, behind zeros while fewer were delivered; a hop
\* writes the HOP_SIZE positions from the cursor on (the oldest samples) in both
\* channels, leaves the rest, and advances the cursor by HOP_SIZE modulo FFT_SIZE.
C11_RingHoldsMostRecent ==
    /\ [](/\ ReadFromCursor(capture.ring_buffer_left, capture.ring_pos)
                 = MostRecent(capture.delivered_left)
          /\ ReadFromCursor(capture.ring_buffer_right, capture.ring_pos)
                 = MostRecent(capture.delivered_right)
          /\ Len(capture.delivered_left) = capture.hops * HOP_SIZE
          /\ Len(capture.delivered_right) = capture.hops * HOP_SIZE
          /\ capture.ring_pos = (capture.hops * HOP_SIZE) % FFT_SIZE)
    /\ [][/\ capture'.ring_pos = (capture.ring_pos + HOP_SIZE) % FFT_SIZE
          /\ \A p \in 0..(FFT_SIZE - 1) :
                 IF p \in HopPositions(capture.ring_pos)
                 THEN /\ capture'.ring_buffer_left[p] # capture.ring_buffer_left[p]
                      /\ capture'.ring_buffer_right[p] # capture.ring_buffer_right[p]
                 ELSE /\ capture'.ring_buffer_left[p] = capture.ring_buffer_left[p]
                      /\ capture'.ring_buffer_right[p] = capture.ring_buffer_right[p]]_vars

\* the ring has wrapped: a fifth hop has overwritten the first one
C11_Witness ==
    /\ capture.hops = 5
    /\ capture.ring_pos = HOP_SIZE
    /\ capture.ring_buffer_left[0] = 4 * HOP_SIZE + 1

\* ==== the capture loop on a changing signal (spectrum.rs 191-252) ================
\* the hops a source delivers when its signal starts and stops: a tone at full
\* scale on the left and 20 dB below on the right, or silence
Programme == {<<Unit, Unit \div 10>>, NoHop}

\* line 207 in a run of any length: the history numbers the hops up to MaxHops
ThreadReadOkLong(t, left, right) ==
    ReadOk(t, left, right, Min(th[t].hops + 1, MaxHops))

\* start("master_sink") has returned and the capture thread has opened its source
DecayInit ==
    /\ data = [SpectrumDataDefault EXCEPT !.running = TRUE]
    /\ data_lock = 0
    /\ stop_flag = FALSE
    /\ handle = 1
    /\ th = [t \in Threads |->
                IF t = 1
                THEN [ThreadNone EXCEPT !.pc = "check", !.simple = "ok",
                                        !.source_name = get_monitor_source("master_sink")]
                ELSE ThreadNone]
    /\ opc = "idle"
    /\ caller = "none"
    /\ sink_name = ""
    /\ spectrum_data = SpectrumDataDefault
    /\ visualizer_state = VisualizerStateDefault
    /\ spawned = 1
    /\ last_op = "start"
    /\ data_hop = DataHopDefault
    /\ frames = 0
    /\ got_info = GotInfo(DataHopDefault, "new", 0)
    /\ capture = NotRun
    /\ call = NotRun
    /\ app = NotRun
    /\ stop_lock = 0

\* the iterations of the loop of thread 1 while nobody calls stop()
DecayNext ==
    \/ ThreadCheckContinue(1)
    \/ \E hop \in Programme : ThreadReadOkLong(1, hop[1], hop[2])
    \/ ThreadProcess(1)
    \/ ThreadLock(1)
    \/ ThreadWriteBands(1)
    \/ ThreadWritePeaks(1)
    \/ ThreadWriteBandsRight(1)
    \/ ThreadWritePeaksRight(1)

\* one capture thread, running hop after hop
DecaySpec == DecayInit /\ [][DecayNext]_vars

\* the thread keeps being scheduled and every read returns
DecayLive == DecaySpec /\ WF_vars(DecayNext)

\* ---- C12 ----------------------------------------------------------------------
\* p * 0.92^n in units of 1/Fine of the fixed-point unit
Fine == Unit
RECURSIVE DecayRef(_, _)
DecayRef(x, n) == IF n = 0 THEN x ELSE DecayRef((x * peak_decay) \div Unit, n - 1)

\* what n roundings, each of at most half a unit, can add up to (in 1/Fine)
RECURSIVE DecayError(_)
DecayError(n) ==
    IF n = 0 THEN 0 ELSE (DecayError(n - 1) * peak_decay) \div Unit + Fine \div 2 + 2

Abs(x) == IF x < 0 THEN 0 - x ELSE x

\* the rule of the claim for one band: band, stored peak, new stored peak
PeakRule(band, peak, new) ==
    IF band > peak THEN new = band
    ELSE 2 * Abs(new * Unit - peak * peak_decay) <= Unit

\* the decay law of the claim for one band: stored peak, peak p0 before the first
\* of n hops with the band at 0
DecayLaw(peak, p0, n) ==
    (0 < n /\ n < MaxQuietHops) =>
        Abs(peak * Fine - DecayRef(p0 * Fine, n)) <= DecayError(n)

\* C12: per band and channel, a hop sets the stored (and published) peak to the
\* band value if that is strictly greater than the stored peak, and else to the
\* stored peak times 0.92 (as f32: to the nearest value); after n hops in a row
\* with the band at 0, starting from peak p0, the peak is p0 * 0.92^n up to those
\* roundings.
C12_PeakDecay ==
    /\ [][\A t \in Threads :
             (th[t].pc = "process" /\ th'[t].pc = "lock") =>
                 \A i \in Bands :
                     /\ PeakRule(th'[t].bands_left[i], th[t].peak_values_left[i],
                                 th'[t].peak_values_left[i])
                     /\ PeakRule(th'[t].bands_right[i], th[t].peak_values_right[i],
                                 th'[t].peak_values_right[i])
                     /\ th'[t].peaks_left[i] = th'[t].peak_values_left[i]
                     /\ th'[t].peaks_right[i] = th'[t].peak_values_right[i]]_vars
    /\ [](\A t \in Threads : \A i \in Bands :
             /\ DecayLaw(th[t].peak_values_left[i], th[t].quiet_from_left[i],
                         th[t].quiet_hops_left[i])
             /\ DecayLaw(th[t].peak_values_right[i], th[t].quiet_from_right[i],
                         th[t].quiet_hops_right[i]))

\* a full-scale peak has decayed over eight hops of silence, from 1.0 to 0.513
C12_Witness ==
    /\ th[1].quiet_hops_left[1] = 8
    /\ th[1].quiet_from_left[1] = Unit
    /\ th[1].peak_values_left[1] = 513
    /\ data.peaks[1] = 513

\* ---- C16 ----------------------------------------------------------------------
\* the largest value that a multiplication by peak_decay rounds back to itself
RoundingFloor == (Unit \div (Unit - peak_decay)) \div 2

\* the source delivers no hop other than zeros
SilentInput == \A t \in Threads : th[t].read_buffer = NoHop

RingSilent(t) ==
    \A b \in 1..Blocks : th[t].ring_buffer_left[b] = 0 /\ th[t].ring_buffer_right[b] = 0

\* thread t has published a hop that was at least the Blocks-th all-zero hop in a row
PublishedSilence(t) == th[t].silent_reads = Blocks /\ th[t].pc \in {"check", "read"}

\* C16: when the source delivers only zeros from some hop on, then after
\* FFT_SIZE / HOP_SIZE = 4 such hops the ring buffers hold only zeros and the
\* published bands of both channels are 0.0; from then on no published peak
\* increases from one hop to the next, and the peaks end within the rounding of
\* the f32 multiplication of 0.
C16_SilenceDecays ==
    /\ [](\A t \in Threads :
             PublishedSilence(t) =>
                 /\ RingSilent(t)
                 /\ data.bands = Zeros
                 /\ data.bands_right = Zeros)
    /\ [][\A t \in Threads :
             th[t].silent_reads = Blocks =>
                 \A i \in Bands :
                     /\ data'.peaks[i] <= data.peaks[i]
                     /\ data'.peaks_right[i] <= data.peaks_right[i]]_vars
    /\ (<>[]SilentInput) =>
           <>[](\A i \in Bands :
                   /\ data.bands[i] = 0
                   /\ data.bands_right[i] = 0
                   /\ data.peaks[i] <= RoundingFloor
                   /\ data.peaks_right[i] <= RoundingFloor)

\* silence has followed a tone for so long that the published peaks have decayed
\* from 1.0 to the rounding floor
C16_Witness ==
    /\ PublishedSilence(1)
    /\ th[1].quiet_hops_left[1] = MaxQuietHops
    /\ data.peaks[1] = RoundingFloor
    /\ data.peaks_right[1] = RoundingFloor

\* ---- C13 ----------------------------------------------------------------------
InUnitRange(values) == \A i \in Bands : 0 <= values[i] /\ values[i] <= Unit

\* C13: in every reachable state the shared snapshot, and so every value returned
\* by get_data(), has all band magnitudes and all peaks of both channels in [0,1].
C13_SnapshotInRange ==
    \A snapshot \in {data, spectrum_data} :
        /\ InUnitRange(snapshot.bands)
        /\ InUnitRange(snapshot.peaks)
        /\ InUnitRange(snapshot.bands_right)
        /\ InUnitRange(snapshot.peaks_right)

\* get_data() has returned, after a stop(), the snapshot of a source amplified
\* beyond full scale: the band clamped to 1.0 on the right, and 0.0 on the left
C13_Witness ==
    /\ got_info.after = "stop"
    /\ ~spectrum_data.running
    /\ spectrum_data.bands_right[1] = Unit
    /\ spectrum_data.peaks_right[1] = peak_decay
    /\ spectrum_data.bands[1] = 0

\* ==== the display state, frame after frame (panels/visualizer.rs 35-70) ===========
\* frames rendered
MaxUpdates == 130

\* snapshots left in the analyzer by a capture thread that stop() has joined,
\* each as <<band, peak, right band, right peak>> of every band: two hops into
\* the tone of Programme, seven silent hops after it has left the ring, and
\* after a long silence
SnapshotLevels == {<<Unit, peak_decay, 666, 613>>, <<0, 513, 0, 342>>,
                   <<0, RoundingFloor, 0, RoundingFloor>>}
Snapshots ==
    {[bands |-> [i \in Bands |-> l[1]], peaks |-> [i \in Bands |-> l[2]],
      bands_right |-> [i \in Bands |-> l[3]], peaks_right |-> [i \in Bands |-> l[4]],
      running |-> FALSE] : l \in SnapshotLevels}

\* a capture thread has published MaxHops hops and stop() has returned; the UI
\* state is fresh
UiInit ==
    /\ data \in Snapshots
    /\ data_lock = 0
    /\ stop_flag = TRUE
    /\ handle = 0
    /\ th = [t \in Threads |-> IF t = 1 THEN ThreadExited("ok") ELSE ThreadNone]
    /\ opc = "idle"
    /\ caller = "none"
    /\ sink_name = ""
    /\ spectrum_data = SpectrumDataDefault
    /\ visualizer_state = VisualizerStateDefault
    /\ spawned = 1
    /\ last_op = "stop"
    /\ data_hop = [bands |-> <<1, MaxHops>>, peaks |-> <<1, MaxHops>>,
                   bands_right |-> <<1, MaxHops>>, peaks_right |-> <<1, MaxHops>>]
    /\ frames = 0
    /\ got_info = GotInfo(DataHopDefault, "new", 0)
    /\ capture = NotRun
    /\ call = NotRun
    /\ app = NotRun
    /\ stop_lock = 0

\* one rendered frame, for at most MaxUpdates frames
UiFrame(dt) ==
    /\ frames < MaxUpdates
    /\ Render(dt)

UiNext == \E dt \in DTs : UiFrame(dt)

\* the frames of the UI on a stopped analyzer
UiSpec == UiInit /\ [][UiNext]_vars

\* lines 62-66: the row of combined magnitudes of a snapshot
CombinedRow(target) == [i \in Bands |-> (target.bands[i] + target.bands_right[i]) \div 2]

\* ---- C14 ----------------------------------------------------------------------
\* C14: from a fresh VisualizerState, after k calls of update the write position
\* is k mod 128; the call number k (counting from 0) writes its row at history
\* index k mod 128 and advances the position by one, modulo 128.
C14_WaterfallPosition ==
    /\ [](visualizer_state.waterfall_pos = frames % WATERFALL_HISTORY)
    /\ [][visualizer_state' # visualizer_state =>
             /\ visualizer_state'.waterfall_history[frames % WATERFALL_HISTORY]
                    = CombinedRow(spectrum_data')
             /\ visualizer_state'.waterfall_pos
                    = (visualizer_state.waterfall_pos + 1) % WATERFALL_HISTORY
             /\ visualizer_state'.waterfall_pos \in 0..(WATERFALL_HISTORY - 1)]_vars

\* the position has wrapped: 129 updates, the last row is at index 0 and the
\* position is 1
C14_Witness ==
    /\ frames = WATERFALL_HISTORY + 1
    /\ visualizer_state.waterfall_pos = 1
    /\ visualizer_state.waterfall_history[0] # Zeros
    /\ visualizer_state.waterfall_history[WATERFALL_HISTORY - 1] # Zeros

\* ---- C15 ----------------------------------------------------------------------
\* C15: an update whose snapshot has, for every band of both channels, the band
\* value that is displayed already leaves every displayed band value as it is,
\* whatever dt > 0 is.
C15_SteadyStateIdempotent ==
    [][(/\ frames' = frames + 1
        /\ visualizer_state.display_bands = spectrum_data'.bands
        /\ visualizer_state.display_bands_right = spectrum_data'.bands_right) =>
           /\ visualizer_state'.display_bands = visualizer_state.display_bands
           /\ visualizer_state'.display_bands_right = visualizer_state.display_bands_right]_vars

\* two updates were made on a display that had reached a non-zero snapshot
C15_Witness ==
    /\ frames >= 3
    /\ visualizer_state.display_bands = spectrum_data.bands
    /\ visualizer_state.display_bands_right = spectrum_data.bands_right
    /\ visualizer_state.display_bands[1] = Unit
    /\ visualizer_state.display_bands_right[1] = 666

\* ==== pure functions of the band index (spectrum.rs 329-335) ====================
\* line 331, line 332, in Hz
min_freq == 20
max_freq == 20000
\* the scale of the fixed-point frequencies and of powf: five decimals
FreqScale == 100000

\* (max_freq / min_freq).powf(k / 64) = 1000^(k/64) for k = 0..64, times
\* FreqScale and rounded: the exponents (band + 0.5) / NUM_BANDS of line 333 and
\* band / NUM_BANDS of lines 268-269 are all of this form
PowfTable ==
    <<
      100000, 111397, 124094, 138237, 153993, 171544,
      191095, 212875, 237137, 264165, 294273, 327812,
      365174, 406794, 453158, 504807, 562341, 626434,
      697831, 777365, 865964, 964662, 1074608, 1197085,
      1333521, 1485508, 1654817, 1843423, 2053525, 2287573,
      2548297, 2838736, 3162278, 3522695, 3924190, 4371445,
      4869675, 5424691, 6042964, 6731704, 7498942, 8353625,
      9305720, 10366329, 11547820, 12863969, 14330126, 15963385,
      17782794, 19809568, 22067341, 24582441, 27384196, 30505279,
      33982083, 37855152, 42169650, 46975888, 52329911, 58294153,
      64938163, 72339416, 80584219, 89768713, 100000000>>

\* (max_freq / min_freq).powf(num / (2 * NUM_BANDS))
powf(num) == PowfTable[num + 1]

get_band_frequency_intdiv(band) ==
    min_freq * powf(2 * NUM_BANDS * ((2 * band + 1) \div (2 * NUM_BANDS)))

get_band_frequency_unscaled(band) == powf(2 * band + 1)

\* lines 330-335: t = (band + 0.5) / NUM_BANDS = (2 * band + 1) / (2 * NUM_BANDS);
\* min_freq * (max_freq / min_freq).powf(t), in 1/FreqScale Hz
get_band_frequency(band) == min_freq * powf(2 * band + 1)

\* the valid band indices
BandIndices == 0..(NUM_BANDS - 1)
\* the calls examined: get_band_frequency for a pair of band indices
BandCalls ==
    {[fn |-> "get_band_frequency", arg |-> <<i, j>>, result |-> <<>>] :
        i \in BandIndices, j \in BandIndices}

\* ==== the bands of a 1 kHz sine (spectrum.rs 256-327) ============================
\* line 9, in Hz
SAMPLE_RATE == 44100
\* line 264
useful_bins == FFT_SIZE \div 2

\* lines 268-272: the edges of a band, in 1/FreqScale Hz
freq_low(band) == min_freq * powf(2 * band)
freq_high(band) == min_freq * powf(2 * band + 2)

bin_of_unscaled(freq) == (freq \div min_freq) \div FreqScale

\* lines 263, 275: (freq / bin_size) as usize, with bin_size = SAMPLE_RATE / FFT_SIZE.
\* freq is min_freq times a value of powf, so freq / bin_size is that value times
\* FFT_SIZE / (SAMPLE_RATE / min_freq) / FreqScale, here with 32 cancelled
bin_of(freq) ==
    ((freq \div min_freq) * (FFT_SIZE \div 32))
        \div ((SAMPLE_RATE \div min_freq) * (FreqScale \div 32))

\* lines 275-276
bin_low(band) == Min(bin_of(freq_low(band)), useful_bins - 1)

bin_high_unforced(band) == Min(bin_of(freq_high(band)), useful_bins - 1)

bin_high(band) ==
    Max(Min(bin_of(freq_high(band)), useful_bins - 1), bin_low(band) + 1)

\* lines 279-288: the sum of the magnitudes of the bins from..to below useful_bins;
\* fft_output is the sequence of fft_output[bin].norm(), bin 0 first
RECURSIVE SumMagnitudes(_, _, _)
SumMagnitudes(fft_output, from, to) ==
    IF to < from THEN 0
    ELSE (IF to < useful_bins THEN fft_output[to + 1] ELSE 0)
            + SumMagnitudes(fft_output, from, to - 1)

\* lines 256-300 bin by bin: the band is the average magnitude of its bins on the
\* dB scale.  Every average from MaxAmplitude up is above 0 dB, where clamp gives 1.0
calculate_bands_fft(fft_output) ==
    [k \in 1..NUM_BANDS |->
        LET band == k - 1
            count == Cardinality({bin \in bin_low(band)..bin_high(band) :
                                     bin < useful_bins})
            sum == SumMagnitudes(fft_output, bin_low(band), bin_high(band))
        IN IF count > 0
           THEN BandOfMagnitude[Min(sum \div count, MaxAmplitude)]
           ELSE 0]

\* lines 307-323 for a 1 kHz sine of amplitude 1.0 that began when the source was
\* opened: the magnitudes, in 1/Unit, of the FFT_SIZE / 2 lowest bins of the
\* Hann-windowed transform, SineTransform[hops][phase + 1][bin + 1].  After hops
\* reads the ring holds hops * HOP_SIZE samples of the sine behind zeros (all of
\* it sine from Blocks reads on); the sine is at phase * 90 degrees at its first
\* sample in the window
SineTransform ==
    <<
    <<<<3490, 3493, 3556, 3739, 3990, 4244, 4672, 5642, 7246, 9102, 10651, 11430, 11197, 9991, 8107, 6008,
         4196, 3030, 2471, 2142, 1821, 1536, 1344, 1211, 1083, 962, 870, 801, 734, 670, 617, 576,
         536, 497, 464, 438, 412, 386, 364, 345, 327, 309, 293, 280, 267, 254, 242, 232,
         223, 213, 204, 196, 189, 181, 174, 168, 163, 157, 151, 146, 142, 137, 132, 128,
         125, 121, 117, 114, 111, 107, 104, 102, 99, 96, 94, 92, 89, 87, 85, 83,
         81, 79, 77, 76, 74, 72, 71, 69, 68, 66, 65, 64, 63, 61, 60, 59,
         58, 57, 56, 55, 54, 53, 52, 51, 50, 49, 49, 48, 47, 46, 46, 45,
         44, 44, 43, 42, 42, 41, 41, 40, 39, 39, 38, 38, 37, 37, 36, 36,
         36, 35, 35, 34, 34, 33, 33, 33, 32, 32, 32, 31, 31, 31, 30, 30,
         30, 29, 29, 29, 29, 28, 28, 28, 27, 27, 27, 27, 27, 26, 26, 26,
         26, 25, 25, 25, 25, 25, 24, 24, 24, 24, 24, 24, 23, 23, 23, 23,
         23, 23, 22, 22, 22, 22, 22, 22, 22, 22, 21, 21, 21, 21, 21, 21,
         21, 21, 21, 20, 20, 20, 20, 20, 20, 20, 20, 20, 20, 20, 19, 19,
         19, 19, 19, 19, 19, 19, 19, 19, 19, 19, 19, 19, 19, 19, 18, 18,
         18, 18, 18, 18, 18, 18, 18, 18, 18, 18, 18, 18, 18, 18, 18, 18,
         18, 18, 18, 18, 18, 18, 18, 18, 18, 18, 18, 18, 18, 18, 18, 18>>,
     <<571, 633, 826, 1160, 1571, 1984, 2531, 3620, 5438, 7687, 9831, 11323, 11780, 11106, 9523, 7514,
         5676, 4459, 3850, 3476, 3113, 2788, 2558, 2390, 2229, 2076, 1954, 1857, 1763, 1673, 1597, 1533,
         1471, 1411, 1358, 1312, 1268, 1225, 1186, 1152, 1118, 1086, 1056, 1029, 1003, 977, 953, 931,
         910, 889, 870, 852, 834, 817, 801, 786, 771, 757, 743, 730, 718, 705, 693, 682,
         672, 661, 651, 641, 632, 622, 613, 605, 597, 589, 581, 573, 566, 559, 552, 545,
         539, 532, 526, 520, 514, 508, 503, 497, 492, 487, 482, 477, 472, 467, 463, 458,
         454, 450, 445, 441, 437, 434, 430, 426, 422, 419, 415, 412, 409, 405, 402, 399,
         396, 393, 390, 387, 384, 381, 379, 376, 373, 371, 368, 366, 364, 361, 359, 357,
         354, 352, 350, 348, 346, 344, 342, 340, 338, 336, 334, 332, 330, 329, 327, 325,
         324, 322, 320, 319, 317, 316, 314, 313, 311, 310, 308, 307, 306, 304, 303, 302,
         300, 299, 298, 297, 296, 294, 293, 292, 291, 290, 289, 288, 287, 286, 285, 284,
         283, 282, 281, 280, 279, 279, 278, 277, 276, 275, 274, 274, 273, 272, 271, 271,
         270, 269, 269, 268, 267, 267, 266, 265, 265, 264, 264, 263, 263, 262, 262, 261,
         261, 260, 260, 259, 259, 258, 258, 257, 257, 257, 256, 256, 256, 255, 255, 254,
         254, 254, 254, 253, 253, 253, 252, 252, 252, 252, 252, 251, 251, 251, 251, 251,
         250, 250, 250, 250, 250, 250, 250, 250, 250, 249, 249, 249, 249, 249, 249, 249>>>>,
    <<<<7038, 7081, 7260, 7539, 8017, 8663, 9722, 11177, 13973, 18554, 38509, 59862, 61063, 40740, 18027, 10870,
         8174, 6228, 5125, 4224, 3629, 3115, 2747, 2419, 2172, 1946, 1770, 1606, 1476, 1353, 1253, 1158,
         1079, 1004, 941, 880, 829, 779, 736, 695, 659, 624, 594, 564, 538, 513, 490, 468,
         449, 430, 413, 396, 381, 366, 353, 339, 328, 316, 305, 295, 286, 276, 268, 259,
         251, 244, 237, 230, 223, 217, 211, 205, 200, 194, 190, 185, 180, 176, 172, 167,
         164, 160, 156, 153, 149, 146, 143, 140, 137, 134, 131, 129, 126, 124, 122, 119,
         117, 115, 113, 111, 109, 107, 105, 103, 102, 100, 98, 97, 95, 94, 92, 91,
         89, 88, 87, 85, 84, 83, 82, 81, 80, 79, 78, 76, 75, 74, 74, 73,
         72, 71, 70, 69, 68, 68, 67, 66, 65, 65, 64, 63, 62, 62, 61, 61,
         60, 59, 59, 58, 58, 57, 57, 56, 55, 55, 54, 54, 54, 53, 53, 52,
         52, 51, 51, 50, 50, 50, 49, 49, 49, 48, 48, 48, 47, 47, 47, 46,
         46, 46, 45, 45, 45, 44, 44, 44, 44, 43, 43, 43, 43, 42, 42, 42,
         42, 42, 41, 41, 41, 41, 41, 40, 40, 40, 40, 40, 40, 39, 39, 39,
         39, 39, 39, 39, 38, 38, 38, 38, 38, 38, 38, 38, 37, 37, 37, 37,
         37, 37, 37, 37, 37, 37, 37, 37, 36, 36, 36, 36, 36, 36, 36, 36,
         36, 36, 36, 36, 36, 36, 36, 36, 36, 36, 36, 36, 36, 36, 36, 36>>,
     <<528, 777, 1375, 2020, 2855, 3790, 5141, 6816, 9872, 14594, 34954, 58384, 62741, 43987, 21140, 13933,
         11099, 9069, 7860, 6877, 6194, 5606, 5161, 4766, 4452, 4166, 3930, 3713, 3528, 3357, 3208, 3069,
         2946, 2830, 2727, 2629, 2541, 2457, 2381, 2308, 2241, 2177, 2119, 2062, 2010, 1959, 1912, 1867,
         1824, 1783, 1745, 1708, 1673, 1639, 1607, 1576, 1546, 1518, 1490, 1464, 1439, 1414, 1391, 1369,
         1347, 1326, 1306, 1286, 1267, 1248, 1231, 1214, 1197, 1181, 1165, 1150, 1135, 1121, 1107, 1093,
         1080, 1067, 1055, 1043, 1031, 1019, 1008, 997, 987, 976, 966, 956, 947, 937, 928, 919,
         910, 902, 894, 885, 877, 870, 862, 855, 847, 840, 833, 826, 820, 813, 807, 800,
         794, 788, 782, 776, 771, 765, 760, 754, 749, 744, 739, 734, 729, 724, 720, 715,
         711, 706, 702, 698, 694, 690, 685, 682, 678, 674, 670, 666, 663, 659, 656, 652,
         649, 646, 643, 639, 636, 633, 630, 627, 624, 621, 619, 616, 613, 610, 608, 605,
         603, 600, 598, 595, 593, 591, 588, 586, 584, 582, 580, 578, 576, 574, 572, 570,
         568, 566, 564, 562, 561, 559, 557, 555, 554, 552, 551, 549, 547, 546, 545, 543,
         542, 540, 539, 538, 536, 535, 534, 533, 531, 530, 529, 528, 527, 526, 525, 524,
         523, 522, 521, 520, 519, 518, 517, 516, 516, 515, 514, 513, 513, 512, 511, 511,
         510, 509, 509, 508, 508, 507, 507, 506, 506, 505, 505, 504, 504, 503, 503, 503,
         502, 502, 502, 502, 501, 501, 501, 501, 501, 500, 500, 500, 500, 500, 500, 500>>>>,
    <<<<3504, 3547, 3636, 3747, 3976, 4396, 4891, 5417, 6661, 10561, 25940, 97274, 107215, 39079, 8575, 5035,
         4094, 3298, 2562, 2082, 1816, 1596, 1376, 1204, 1088, 988, 886, 802, 740, 684, 628, 579,
         541, 507, 471, 440, 416, 393, 369, 348, 331, 314, 297, 282, 270, 258, 246, 235,
         225, 216, 207, 198, 191, 184, 177, 170, 164, 159, 153, 148, 143, 139, 134, 130,
         126, 122, 119, 115, 112, 109, 106, 103, 100, 98, 95, 93, 90, 88, 86, 84,
         82, 80, 78, 77, 75, 73, 72, 70, 69, 67, 66, 65, 63, 62, 61, 60,
         59, 58, 56, 56, 55, 54, 53, 52, 51, 50, 49, 48, 48, 47, 46, 45,
         45, 44, 43, 43, 42, 42, 41, 40, 40, 39, 39, 38, 38, 37, 37, 36,
         36, 36, 35, 35, 34, 34, 33, 33, 33, 32, 32, 32, 31, 31, 31, 30,
         30, 30, 29, 29, 29, 29, 28, 28, 28, 28, 27, 27, 27, 27, 26, 26,
         26, 26, 26, 25, 25, 25, 25, 25, 24, 24, 24, 24, 24, 24, 23, 23,
         23, 23, 23, 23, 22, 22, 22, 22, 22, 22, 22, 22, 21, 21, 21, 21,
         21, 21, 21, 21, 21, 20, 20, 20, 20, 20, 20, 20, 20, 20, 20, 20,
         20, 19, 19, 19, 19, 19, 19, 19, 19, 19, 19, 19, 19, 19, 19, 19,
         19, 19, 19, 18, 18, 18, 18, 18, 18, 18, 18, 18, 18, 18, 18, 18,
         18, 18, 18, 18, 18, 18, 18, 18, 18, 18, 18, 18, 18, 18, 18, 18>>,
     <<31, 337, 641, 950, 1372, 1956, 2594, 3251, 4602, 8644, 24698, 95785, 108440, 40211, 10054, 6431,
         5454, 4659, 3900, 3376, 3067, 2816, 2567, 2360, 2211, 2083, 1956, 1844, 1755, 1676, 1597, 1526,
         1466, 1412, 1358, 1309, 1265, 1225, 1186, 1149, 1116, 1086, 1055, 1027, 1001, 977, 953, 930,
         909, 889, 869, 851, 833, 817, 801, 785, 770, 756, 743, 729, 717, 705, 693, 682,
         671, 661, 651, 641, 631, 622, 613, 605, 596, 589, 581, 573, 566, 559, 552, 545,
         538, 532, 526, 520, 514, 508, 502, 497, 492, 487, 482, 477, 472, 467, 463, 458,
         454, 450, 445, 441, 437, 433, 430, 426, 422, 419, 415, 412, 409, 405, 402, 399,
         396, 393, 390, 387, 384, 381, 379, 376, 373, 371, 368, 366, 363, 361, 359, 356,
         354, 352, 350, 348, 346, 344, 342, 340, 338, 336, 334, 332, 330, 329, 327, 325,
         324, 322, 320, 319, 317, 316, 314, 313, 311, 310, 308, 307, 306, 304, 303, 302,
         300, 299, 298, 297, 296, 294, 293, 292, 291, 290, 289, 288, 287, 286, 285, 284,
         283, 282, 281, 280, 279, 279, 278, 277, 276, 275, 274, 274, 273, 272, 271, 271,
         270, 269, 269, 268, 267, 267, 266, 265, 265, 264, 264, 263, 263, 262, 262, 261,
         261, 260, 260, 259, 259, 258, 258, 257, 257, 257, 256, 256, 255, 255, 255, 254,
         254, 254, 254, 253, 253, 253, 252, 252, 252, 252, 252, 251, 251, 251, 251, 251,
         250, 250, 250, 250, 250, 250, 250, 250, 250, 249, 249, 249, 249, 249, 249, 249>>>>,
    <<<<49, 51, 59, 73, 99, 146, 234, 422, 898, 2557, 15109, 99988, 115747, 29733, 3400, 1072,
         473, 250, 148, 94, 64, 45, 33, 25, 19, 15, 12, 10, 8, 7, 5, 5,
         4, 3, 3, 2, 2, 2, 2, 1, 1, 1, 1, 1, 1, 1, 1, 1,
         1, 1, 0, 0, 0, 0, 0, 0, 0, 0, 0, 0, 0, 0, 0, 0,
         0, 0, 0, 0, 0, 0, 0, 0, 0, 0, 0, 0, 0, 0, 0, 0,
         0, 0, 0, 0, 0, 0, 0, 0, 0, 0, 0, 0, 0, 0, 0, 0,
         0, 0, 0, 0, 0, 0, 0, 0, 0, 0, 0, 0, 0, 0, 0, 0,
         0, 0, 0, 0, 0, 0, 0, 0, 0, 0, 0, 0, 0, 0, 0, 0,
         0, 0, 0, 0, 0, 0, 0, 0, 0, 0, 0, 0, 0, 0, 0, 0,
         0, 0, 0, 0, 0, 0, 0, 0, 0, 0, 0, 0, 0, 0, 0, 0,
         0, 0, 0, 0, 0, 0, 0, 0, 0, 0, 0, 0, 0, 0, 0, 0,
         0, 0, 0, 0, 0, 0, 0, 0, 0, 0, 0, 0, 0, 0, 0, 0,
         0, 0, 0, 0, 0, 0, 0, 0, 0, 0, 0, 0, 0, 0, 0, 0,
         0, 0, 0, 0, 0, 0, 0, 0, 0, 0, 0, 0, 0, 0, 0, 0,
         0, 0, 0, 0, 0, 0, 0, 0, 0, 0, 0, 0, 0, 0, 0, 0,
         0, 0, 0, 0, 0, 0, 0, 0, 0, 0, 0, 0, 0, 0, 0, 0>>,
     <<14, 19, 32, 52, 82, 131, 222, 411, 889, 2549, 15102, 99994, 115742, 29737, 3404, 1076,
         477, 253, 150, 97, 66, 47, 35, 26, 21, 16, 13, 11, 9, 8, 6, 5,
         5, 4, 4, 3, 3, 3, 2, 2, 2, 2, 1, 1, 1, 1, 1, 1,
         1, 1, 1, 1, 1, 1, 1, 1, 0, 0, 0, 0, 0, 0, 0, 0,
         0, 0, 0, 0, 0, 0, 0, 0, 0, 0, 0, 0, 0, 0, 0, 0,
         0, 0, 0, 0, 0, 0, 0, 0, 0, 0, 0, 0, 0, 0, 0, 0,
         0, 0, 0, 0, 0, 0, 0, 0, 0, 0, 0, 0, 0, 0, 0, 0,
         0, 0, 0, 0, 0, 0, 0, 0, 0, 0, 0, 0, 0, 0, 0, 0,
         0, 0, 0, 0, 0, 0, 0, 0, 0, 0, 0, 0, 0, 0, 0, 0,
         0, 0, 0, 0, 0, 0, 0, 0, 0, 0, 0, 0, 0, 0, 0, 0,
         0, 0, 0, 0, 0, 0, 0, 0, 0, 0, 0, 0, 0, 0, 0, 0,
         0, 0, 0, 0, 0, 0, 0, 0, 0, 0, 0, 0, 0, 0, 0, 0,
         0, 0, 0, 0, 0, 0, 0, 0, 0, 0, 0, 0, 0, 0, 0, 0,
         0, 0, 0, 0, 0, 0, 0, 0, 0, 0, 0, 0, 0, 0, 0, 0,
         0, 0, 0, 0, 0, 0, 0, 0, 0, 0, 0, 0, 0, 0, 0, 0,
         0, 0, 0, 0, 0, 0, 0, 0, 0, 0, 0, 0, 0, 0, 0, 0>>>>>>

Phases == {0, 1}
\* the sine is delivered at amplitude 1 / attenuation
Attenuations == {1, 10, 1000, 100000}

\* the transform is linear in the amplitude
SineSpectrum(hops, phase, attenuation) ==
    [bin1 \in 1..useful_bins |->
        SineTransform[hops][phase + 1][bin1] \div attenuation]

\* the calls examined: calculate_bands on the transform of the sine
SineCalls ==
    {[fn |-> "calculate_bands", arg |-> <<hops, phase, attenuation>>,
      result |-> <<>>] :
        hops \in 1..Blocks, phase \in Phases, attenuation \in Attenuations}

\* ==== the displayed peak in f32 (panels/visualizer.rs 47-51, 73-75) ==============
\* f32 values are written in units of 2^-30 (F32One is 1.0); the significand of
\* an f32 has 24 bits
F32One == 1073741824
SignificandBits == 24

RECURSIVE Pow2(_)
Pow2(n) == IF n = 0 THEN 1 ELSE 2 * Pow2(n - 1)

\* the spacing of the f32 values around x >= 0, in the same units
Ulp(x) ==
    LET fits(j) == x \div Pow2(j) < Pow2(SignificandBits)
        k == CHOOSE j \in 0..7 : fits(j) /\ (j > 0 => ~fits(j - 1))
    IN Pow2(k)

\* x rounded to the nearest f32, ties to even
RoundF32(x) ==
    LET m == IF x < 0 THEN 0 - x ELSE x
        step == Ulp(m)
        q == m \div step
        r == m % step
        up == 2 * r > step \/ (2 * r = step /\ q % 2 = 1)
        n == IF up THEN (q + 1) * step ELSE q * step
    IN IF x < 0 THEN 0 - n ELSE n

\* line 74 in f32, for t = quarters / 4: a + (b - a) * t.clamp(0.0, 1.0), each
\* operation rounded.  The values used are multiples of 8 units, so the product
\* with 1/4, 1/2 or 1 is exact before rounding
lerp_f32(a, b, quarters) ==
    LET t == Clamp(quarters, 0, 4)
        difference == RoundF32(b - a)
        product == RoundF32((difference \div 4) * t)
    IN RoundF32(a + product)

DisplayPeak_f32_nojump(current, target, eighths) == lerp_f32(current, target, eighths)

\* lines 47-51 for one band, dt = eighths / 8 seconds: 2.0 * dt = eighths / 4
DisplayPeak_f32(current, target, eighths) ==
    IF target > current THEN target ELSE lerp_f32(current, target, eighths)

\* f32 values of a displayed or published peak: 0, 2^-27, 2^-25, 1.25 * 2^-25,
\* 2^-20, 0.5, 0.92 and 1.0
F32Peaks == {0, 8, 32, 40, 1024, F32One \div 2, 987842496, F32One}
\* predicted_dt in eighths of a second: 0, 0.125, 0.25, 0.5 and 1 s
DtEighths == {0, 1, 2, 4, 8}

\* the calls examined: update on one band, from a displayed peak to a target peak
PeakCalls ==
    {[fn |-> "update", arg |-> <<current, target, eighths>>, result |-> <<>>] :
        current \in F32Peaks, target \in F32Peaks, eighths \in DtEighths}

\* ==== calls of the pure functions ================================================
\* the calls examined: the bin ranges of two bands in one pass of the loop of
\* calculate_bands
BinRangeCalls ==
    {[fn |-> "bin_range", arg |-> <<a, b>>, result |-> <<>>] :
        a \in BandIndices, b \in BandIndices}

PendingCalls == BandCalls \cup SineCalls \cup PeakCalls \cup BinRangeCalls

\* the analyzer as constructed, and a call about to be made
CallInit ==
    /\ AnalyzerInit
    /\ capture = NotRun
    /\ call \in PendingCalls
    /\ app = NotRun

\* get_band_frequency is called for both indices of the pair
CallGetBandFrequency ==
    /\ call.fn = "get_band_frequency"
    /\ call.result = <<>>
    /\ call' = [call EXCEPT !.result = <<get_band_frequency(call.arg[1]),
                                         get_band_frequency(call.arg[2])>>]
    /\ UNCHANGED <<analyzerShared, handle, th, opc, ownerLocals, uiVars, spawned,
                   last_op, capture, app, stop_lock>>

\* calculate_bands_from_ring hands the transform of the window to calculate_bands
CallCalculateBands ==
    /\ call.fn = "calculate_bands"
    /\ call.result = <<>>
    /\ call' = [call EXCEPT !.result =
                    calculate_bands_fft(SineSpectrum(call.arg[1], call.arg[2],
                                                     call.arg[3]))]
    /\ UNCHANGED <<analyzerShared, handle, th, opc, ownerLocals, uiVars, spawned,
                   last_op, capture, app, stop_lock>>

\* VisualizerState::update is called: the displayed peak of one band
CallUpdate ==
    /\ call.fn = "update"
    /\ call.result = <<>>
    /\ call' = [call EXCEPT !.result =
                    <<DisplayPeak_f32(call.arg[1], call.arg[2], call.arg[3])>>]
    /\ UNCHANGED <<analyzerShared, handle, th, opc, ownerLocals, uiVars, spawned,
                   last_op, capture, app, stop_lock>>

\* calculate_bands, lines 266-276, for two bands: their bin ranges
CallBinRange ==
    /\ call.fn = "bin_range"
    /\ call.result = <<>>
    /\ call' = [call EXCEPT !.result =
                    <<bin_low(call.arg[1]), bin_high(call.arg[1]),
                      bin_low(call.arg[2]), bin_high(call.arg[2])>>]
    /\ UNCHANGED <<analyzerShared, handle, th, opc, ownerLocals, uiVars, spawned,
                   last_op, capture, app, stop_lock>>

CallNext == CallGetBandFrequency \/ CallCalculateBands \/ CallUpdate \/ CallBinRange

\* the pure functions, each applied to the arguments drawn
CallSpec == CallInit /\ [][CallNext]_vars

Returned(fn) == call.fn = fn /\ call.result # <<>>

\* the band whose [freq_low, freq_high) holds 1000 Hz
SineBand ==
    CHOOSE band \in BandIndices :
        /\ freq_low(band) <= 1000 * FreqScale
        /\ 1000 * FreqScale < freq_high(band)

\* the bands centred below 200 Hz and above 5000 Hz
FarBands ==
    {band \in BandIndices :
        \/ get_band_frequency(band) < 200 * FreqScale
        \/ get_band_frequency(band) > 5000 * FreqScale}

SinePeaks == \A band \in FarBands : call.result[SineBand + 1] > call.result[band + 1]

\* ---- C17 ----------------------------------------------------------------------
\* C17: for band indices 0 <= i < j < 32, get_band_frequency(i) <
\* get_band_frequency(j); two calls with the same index return the same value.
C17_BandFrequencyIncreasing ==
    Returned("get_band_frequency") =>
        /\ call.arg[1] < call.arg[2] => call.result[1] < call.result[2]
        /\ call.arg[1] = call.arg[2] => call.result[1] = call.result[2]

\* the two highest bands: 14467.88 Hz and 17953.74 Hz
C17_Witness ==
    /\ Returned("get_band_frequency")
    /\ call.arg = <<NUM_BANDS - 2, NUM_BANDS - 1>>
    /\ call.result[1] \div FreqScale = 14467
    /\ call.result[2] \div FreqScale = 17953

\* ---- C18 ----------------------------------------------------------------------
\* C18: for every band index 0..31, get_band_frequency(band) is at least 20 Hz
\* and at most 20000 Hz.
C18_BandFrequencyInRange ==
    Returned("get_band_frequency") =>
        \A k \in 1..2 :
            /\ min_freq * FreqScale <= call.result[k]
            /\ call.result[k] <= max_freq * FreqScale

\* the lowest band and the highest: 22.27 Hz and 17953.74 Hz
C18_Witness ==
    /\ Returned("get_band_frequency")
    /\ call.arg = <<0, NUM_BANDS - 1>>
    /\ call.result[1] \div (FreqScale \div 100) = 2227
    /\ call.result[2] \div (FreqScale \div 100) = 1795374

\* ---- C19 ----------------------------------------------------------------------
\* C19 as stated: with a pure 1 kHz sine as the capture signal, the band holding
\* 1000 Hz is strictly greater than every band centred below 200 Hz and above
\* 5000 Hz, in every published snapshot and at every amplitude.
C19_SinePeakAlways == Returned("calculate_bands") => SinePeaks

\* C19, amended: once the ring holds FFT_SIZE samples of the sine (from the
\* fourth read on) and for amplitudes from 0.001 to 1.0, the band holding 1000 Hz
\* is strictly greater than every band centred below 200 Hz and above 5000 Hz.
C19_SinePeakWhenFull ==
    (/\ Returned("calculate_bands")
     /\ call.arg[1] = Blocks
     /\ call.arg[3] <= Unit) => SinePeaks

\* the full-scale sine in a full ring: band 18 at 1.0, the lowest band at 0.5,
\* the highest at 0
C19_Witness ==
    /\ Returned("calculate_bands")
    /\ call.arg = <<Blocks, 0, 1>>
    /\ SineBand = 18
    /\ call.result[SineBand + 1] = Unit
    /\ call.result[1] = Unit \div 2
    /\ call.result[NUM_BANDS] = 0

\* ==== the stop flag across start() (spectrum.rs 64-86, 191-197) ==================
\* the owner is inside a stop() that has set the flag and not yet joined
StopPending == opc \in {"stop_running", "stop_join"}

\* a thread returns from its loop: the break of line 195
LeavesLoop(t) == th[t].pc = "check" /\ th'[t].pc = "done"

\* ---- C20 ----------------------------------------------------------------------
\* C20: start() clears the stop flag before it spawns: while a capture thread is
\* alive the flag is set only by a stop() (or drop) entered after the thread was
\* spawned and still waiting for this thread, and a thread leaves its loop only
\* on a flag set in that way.
C20_FlagClearedBeforeSpawn ==
    /\ [](\A t \in Threads : (Alive(t) /\ stop_flag) => (StopPending /\ handle = t))
    /\ [][\A t \in Threads : LeavesLoop(t) => (stop_flag /\ StopPending /\ handle = t)]_vars

\* a restart: the second thread has opened its source, found the flag clear and
\* is reading, after the stop() inside start() had set the flag for the first
C20_Witness ==
    /\ spawned = 2
    /\ handle = 2
    /\ th[1].pc = "done"
    /\ th[2].pc = "read"
    /\ th[2].simple = "ok"
    /\ ~stop_flag

\* ==== the published peaks against the published bands (spectrum.rs 229-251) =====
\* the snapshot lock is free and the four arrays come from one hop of one thread
PublishedWhole ==
    /\ data_lock = 0
    /\ data_hop.bands[1] # 0
    /\ data_hop.bands = data_hop.peaks
    /\ data_hop.bands = data_hop.bands_right
    /\ data_hop.bands = data_hop.peaks_right

\* ---- C21 ----------------------------------------------------------------------
\* C21: in every snapshot published by the capture loop, for every band and both
\* channels the peak is greater than or equal to the band of the same hop.
C21_PeakAtLeastBand ==
    PublishedWhole =>
        \A i \in Bands :
            /\ data.peaks[i] >= data.bands[i]
            /\ data.peaks_right[i] >= data.bands_right[i]

\* ==== who writes the running flag (spectrum.rs 83-85, 94-96, 170-172, 246-251) ===
\* a step of the publication of thread t (one of the four assignments)
PublishStep(t) == Publishing(t) /\ th'[t].pc # th[t].pc

\* a step that changes running is line 84 (to true), or line 95 or line 171 (to false)
RunningWriters ==
    /\ (data'.running /\ ~data.running) => (opc = "start_running" /\ opc' = "idle")
    /\ (~data'.running /\ data.running) =>
           \/ opc = "stop_running" /\ opc' = "stop_join"
           \/ \E t \in Threads : th[t].pc = "open" /\ th'[t].pc = "done"

\* ---- C22 ----------------------------------------------------------------------
\* C22: the publication of a hop writes the four arrays and leaves running alone;
\* running becomes true only in start() and false only in stop() and on the
\* open failure, so once stop() has set it to false it stays false while stop()
\* waits for the thread, whatever the thread still publishes.
C22_PublicationKeepsRunning ==
    /\ [][/\ RunningWriters
          /\ \A t \in Threads : PublishStep(t) => data'.running = data.running]_vars
    /\ [](opc = "stop_join" => ~data.running)

\* stop() has set running to false after a completed start(), and the thread,
\* which took the snapshot lock after that, has written the bands of a hop
C22_Witness ==
    \E t \in Threads :
        /\ opc = "stop_join"
        /\ last_op = "start"
        /\ th[t].pc = "w_peaks"
        /\ data_hop.bands = <<t, th[t].hops>>
        /\ ~data.running

\* ==== the two mutexes, lock by lock (spectrum.rs 64-107, 168-174, 191-252) =======
\* calls of start() and successful reads per thread
MaxLockStarts == 1
MaxLockHops == 1
\* the owner as a holder of a mutex
OwnerId == 0 - 1
Contexts == Threads \cup {OwnerId}

\* what a step on the stop flag or its mutex leaves alone
FlagFrame ==
    UNCHANGED <<capture, call, app, data, data_lock, data_hop, handle, ownerLocals,
                uiVars, spawned, last_op>>
\* what a step of the owner on the snapshot mutex leaves alone
DataFrame == UNCHANGED <<capture, call, app, stop_lock, stop_flag, handle, th, spawned>>

\* line 90: self.stop_flag.lock()
StopLockFlag ==
    /\ opc = "stop_flag"
    /\ stop_lock = 0
    /\ stop_lock' = OwnerId
    /\ opc' = "stop_flag_held"
    /\ UNCHANGED <<stop_flag, th>>
    /\ FlagFrame

\* lines 91-92: *stop = true; the guard is dropped
StopWriteFlag ==
    /\ opc = "stop_flag_held"
    /\ stop_flag' = TRUE
    /\ stop_lock' = 0
    /\ opc' = "stop_running"
    /\ UNCHANGED th
    /\ FlagFrame

\* line 94: self.data.lock()
StopLockData ==
    /\ opc = "stop_running"
    /\ data_lock = 0
    /\ data_lock' = OwnerId
    /\ opc' = "stop_running_held"
    /\ UNCHANGED <<data, data_hop, ownerLocals, uiVars, last_op>>
    /\ DataFrame

StopWriteRunning_keep ==
    /\ opc = "stop_running_held"
    /\ data' = [data EXCEPT !.running = FALSE]
    /\ opc' = "stop_join"
    /\ UNCHANGED <<data_lock, data_hop, ownerLocals, uiVars, last_op>>
    /\ DataFrame

\* lines 95-96: d.running = false; the guard is dropped
StopWriteRunning ==
    /\ opc = "stop_running_held"
    /\ data' = [data EXCEPT !.running = FALSE]
    /\ data_lock' = 0
    /\ opc' = "stop_join"
    /\ UNCHANGED <<data_hop, ownerLocals, uiVars, last_op>>
    /\ DataFrame

\* line 69: self.stop_flag.lock()
StartLockFlag ==
    /\ opc = "start_reset"
    /\ stop_lock = 0
    /\ stop_lock' = OwnerId
    /\ opc' = "start_reset_held"
    /\ UNCHANGED <<stop_flag, th>>
    /\ FlagFrame

\* lines 70-71: *stop = false; the guard is dropped
StartWriteFlag ==
    /\ opc = "start_reset_held"
    /\ stop_flag' = FALSE
    /\ stop_lock' = 0
    /\ opc' = "start_spawn"
    /\ UNCHANGED th
    /\ FlagFrame

\* line 83: self.data.lock()
StartLockData ==
    /\ opc = "start_running"
    /\ data_lock = 0
    /\ data_lock' = OwnerId
    /\ opc' = "start_running_held"
    /\ UNCHANGED <<data, data_hop, ownerLocals, uiVars, last_op>>
    /\ DataFrame

\* lines 84-86: d.running = true; the guard is dropped; start() returns
StartWriteRunning ==
    /\ opc = "start_running_held"
    /\ data' = [data EXCEPT !.running = TRUE]
    /\ data_lock' = 0
    /\ opc' = "idle"
    /\ last_op' = "start"
    /\ caller' = "none"
    /\ sink_name' = ""
    /\ UNCHANGED <<data_hop, uiVars>>
    /\ DataFrame

\* line 106: self.data.lock()
GetDataLock ==
    /\ opc = "idle"
    /\ data_lock = 0
    /\ data_lock' = OwnerId
    /\ opc' = "get_data_held"
    /\ UNCHANGED <<data, data_hop, ownerLocals, uiVars, last_op>>
    /\ DataFrame

\* line 106: .map(|d| d.clone()); the guard is dropped; app.rs 628 stores the copy
GetDataClone ==
    /\ opc = "get_data_held"
    /\ spectrum_data' = data
    /\ got_info' = GotInfo(data_hop, last_op, spawned)
    /\ data_lock' = 0
    /\ opc' = "idle"
    /\ UNCHANGED <<data, data_hop, ownerLocals, visualizer_state, frames, last_op>>
    /\ DataFrame

\* line 170: data.lock(), after Simple::new(...) failed
ThreadOpenFailLock(t) ==
    /\ th[t].pc = "open"
    /\ data_lock = 0
    /\ data_lock' = t
    /\ SetTh(t, [th[t] EXCEPT !.pc = "open_fail_held"])
    /\ UNCHANGED <<benchVars, data, stop_flag, data_hop, handle, opc, ownerLocals, uiVars,
                   spawned, last_op>>

\* lines 171-173: d.running = false; the guard is dropped; return
ThreadOpenFailWrite(t) ==
    /\ th[t].pc = "open_fail_held"
    /\ data' = [data EXCEPT !.running = FALSE]
    /\ data_lock' = 0
    /\ SetTh(t, ThreadExited("err"))
    /\ UNCHANGED <<benchVars, stop_flag, data_hop, handle, opc, ownerLocals, uiVars,
                   spawned, last_op>>

\* line 193: stop_flag.lock()
ThreadCheckLock(t) ==
    /\ th[t].pc = "check"
    /\ stop_lock = 0
    /\ stop_lock' = t
    /\ SetTh(t, [th[t] EXCEPT !.pc = "check_held"])
    /\ UNCHANGED <<stop_flag, opc>>
    /\ FlagFrame

\* lines 194-197: if *stop { break }; the guard is dropped either way
ThreadCheckRead(t) ==
    /\ th[t].pc = "check_held"
    /\ stop_lock' = 0
    /\ SetTh(t, IF stop_flag THEN ThreadExited("ok") ELSE [th[t] EXCEPT !.pc = "read"])
    /\ UNCHANGED <<stop_flag, opc>>
    /\ FlagFrame

\* the steps of the owner inside start(), stop(), drop and get_data()
LockOwnerSteps ==
    \/ StopLockFlag
    \/ StopWriteFlag
    \/ StopLockData
    \/ StopWriteRunning
    \/ StopJoin
    \/ StartLockFlag
    \/ StartWriteFlag
    \/ StartSpawn
    \/ StartLockData
    \/ StartWriteRunning
    \/ GetDataClone

\* start("master_sink"), at most MaxLockStarts times
LockCallStart ==
    /\ spawned < MaxLockStarts
    /\ OwnerCallStart("master_sink")

\* line 207 returns Ok, at most MaxLockHops times per thread
LockReadOk(t) ==
    /\ th[t].hops < MaxLockHops
    /\ ReadOk(t, Unit, 0, th[t].hops + 1)

\* the owner's calls
LockOwnerCalls ==
    \/ LockCallStart
    \/ OwnerCallStop
    \/ OwnerDrop
    \/ GetDataLock

\* run_analyzer, lock by lock
LockThreadNext(t) ==
    \/ ThreadOpenOk(t)
    \/ ThreadOpenFailLock(t)
    \/ ThreadOpenFailWrite(t)
    \/ ThreadCheckLock(t)
    \/ ThreadCheckRead(t)
    \/ LockReadOk(t)
    \/ ThreadReadErr(t)
    \/ ThreadContinue(t)
    \/ ThreadProcess(t)
    \/ ThreadLock(t)
    \/ ThreadWriteBands(t)
    \/ ThreadWritePeaks(t)
    \/ ThreadWriteBandsRight(t)
    \/ ThreadWritePeaksRight(t)

LockCapture == \E t \in Threads : LockThreadNext(t)

LockNext == LockOwnerCalls \/ LockOwnerSteps \/ LockCapture

\* The analyzer with every lock() and every drop of a guard as a step of its own.
LockSpec == Init /\ [][LockNext]_vars

\* The same under the code's scheduling: the owner goes on inside a call it has
\* entered, every spawned thread keeps being scheduled, a blocking read returns,
\* and a context that finds a mutex free again and again gets it in the end (no
\* starvation: the property is about waiting for ever on a mutex that is never
\* released, not about losing every race for one that is).
LockLive ==
    /\ LockSpec
    /\ SF_vars(LockOwnerSteps)
    /\ \A t \in Threads : SF_vars(LockThreadNext(t))

OwnerInCall == opc \notin {"idle", "dropped"}

\* ---- C23 ----------------------------------------------------------------------
\* C23: no context holds the stop-flag lock and the snapshot lock together, and
\* stop() holds neither while it joins; so nothing deadlocks on the two locks:
\* every lock taken is released again and every call of the owner returns.
C23_LocksNeverNested ==
    /\ [](\A c \in Contexts : ~(stop_lock = c /\ data_lock = c))
    /\ [](opc = "stop_join" => (stop_lock # OwnerId /\ data_lock # OwnerId))
    /\ (stop_lock # 0) ~> (stop_lock = 0)
    /\ (data_lock # 0) ~> (data_lock = 0)
    /\ OwnerInCall ~> ~OwnerInCall

\* stop() has set the flag and waits for the snapshot lock, which the capture
\* thread holds while it publishes a hop
C23_Witness ==
    \E t \in Threads :
        /\ opc = "stop_running"
        /\ stop_flag
        /\ data_lock = t
        /\ Publishing(t)

\* ==== the waterfall under a changing snapshot (panels/visualizer.rs 62-69, 174-196)
\* frames rendered: the history wraps twice
MaxScroll == 260

\* the snapshot of hop number hop of a source that grows louder from hop to hop:
\* every hop has its own combined row
RisingSnapshot(hop) ==
    [bands |-> [i \in Bands |-> hop], peaks |-> [i \in Bands |-> hop],
     bands_right |-> [i \in Bands |-> 3 * hop],
     peaks_right |-> [i \in Bands |-> 3 * hop],
     running |-> TRUE]

\* a capture thread is in its loop after start() has returned, nothing published
ScrollInit == DecayInit

\* spectrum.rs 246-251 for one iteration of the loop of thread 1, as one step:
\* the four arrays of the next hop are published; one hop per frame
ScrollPublish ==
    /\ th[1].pc = "check"
    /\ th[1].hops = frames
    /\ frames < MaxScroll
    /\ data' = RisingSnapshot(th[1].hops + 1)
    /\ data_hop' = [bands |-> <<1, th[1].hops + 1>>, peaks |-> <<1, th[1].hops + 1>>,
                    bands_right |-> <<1, th[1].hops + 1>>,
                    peaks_right |-> <<1, th[1].hops + 1>>]
    /\ SetTh(1, [th[1] EXCEPT !.hops = @ + 1])
    /\ UNCHANGED <<benchVars, data_lock, stop_flag, handle, opc, ownerLocals, uiVars,
                   spawned, last_op>>

\* one rendered frame on the hop just published
ScrollFrame(dt) ==
    /\ th[1].hops = frames + 1
    /\ Render(dt)

ScrollNext == ScrollPublish \/ \E dt \in DTs : ScrollFrame(dt)

\* the frames of the UI on a running analyzer whose snapshot changes every frame
ScrollSpec == ScrollInit /\ [][ScrollNext]_vars

\* the rows of the history
Rows == 0..(WATERFALL_HISTORY - 1)

\* ---- C24 ----------------------------------------------------------------------
\* C24: a call of update changes exactly one row of the waterfall history, the
\* row at the write position held before the call, which becomes the average of
\* the left and right bands of the snapshot passed; the other 127 rows are as
\* before and the history still has 128 rows.
C24_OneRowPerUpdate ==
    /\ [](DOMAIN visualizer_state.waterfall_history = Rows)
    /\ [][frames' = frames + 1 =>
             /\ visualizer_state'.waterfall_history[visualizer_state.waterfall_pos]
                    = CombinedRow(spectrum_data')
             /\ visualizer_state'.waterfall_history[visualizer_state.waterfall_pos]
                    # visualizer_state.waterfall_history[visualizer_state.waterfall_pos]
             /\ \A r \in Rows \ {visualizer_state.waterfall_pos} :
                    visualizer_state'.waterfall_history[r]
                        = visualizer_state.waterfall_history[r]]_vars

\* the update number 130 has overwritten row 1, which held the row of hop 2,
\* with the row of hop 130; rows 0 and 2 hold the rows of hops 129 and 3
C24_Witness ==
    /\ frames = WATERFALL_HISTORY + 2
    /\ visualizer_state.waterfall_history[1] = CombinedRow(RisingSnapshot(frames))
    /\ visualizer_state.waterfall_history[0] = CombinedRow(RisingSnapshot(frames - 1))
    /\ visualizer_state.waterfall_history[2] = CombinedRow(RisingSnapshot(3))

\* ==== render_waterfall (panels/visualizer.rs 174-196) ============================
history_idx_unrotated(state, row) == row % WATERFALL_HISTORY

\* line 181: the history index of the row painted as number row from the bottom
history_idx(state, row) == (state.waterfall_pos + row) % WATERFALL_HISTORY

\* lines 179-185: the rows as render_waterfall reads them, row 0 first
WaterfallRows(state) ==
    [row \in Rows |-> state.waterfall_history[history_idx(state, row)]]

\* ---- C25 ----------------------------------------------------------------------
\* C25: after at least 128 updates, render_waterfall's row r, read at history
\* index (waterfall_pos + r) mod 128, is the row written by the update number
\* (updates - 127 + r): r = 0 is the oldest row kept, r = 127 the row of the
\* latest update; the index is within 0..127.
C25_WaterfallOldestFirst ==
    frames >= WATERFALL_HISTORY =>
        /\ \A r \in Rows : history_idx(visualizer_state, r) \in Rows
        /\ \A r \in Rows :
               WaterfallRows(visualizer_state)[r]
                   = CombinedRow(RisingSnapshot(frames - (WATERFALL_HISTORY - 1) + r))
        /\ WaterfallRows(visualizer_state)[WATERFALL_HISTORY - 1]
               = CombinedRow(spectrum_data)

\* 200 updates: the write position is 72, the bottom row is the row of update 73
\* and the top row the row of update 200
C25_Witness ==
    /\ frames = 200
    /\ visualizer_state.waterfall_pos = 72
    /\ WaterfallRows(visualizer_state)[0] = CombinedRow(RisingSnapshot(73))
    /\ WaterfallRows(visualizer_state)[WATERFALL_HISTORY - 1]
           = CombinedRow(RisingSnapshot(200))
    /\ visualizer_state.waterfall_history[0] = CombinedRow(RisingSnapshot(129))

\* ==== the displayed peak against the snapshot's peak ==============================
\* the displayed peak after update is at least the target peak
AtLeastTarget == call.result[1] >= call.arg[2]

\* lines 47-48: a target above the displayed peak is taken over at once
JumpsUp == call.arg[2] > call.arg[1] => call.result[1] = call.arg[2]

\* lines 49-51: otherwise the displayed peak does not rise
DecaysDown == call.arg[2] <= call.arg[1] => call.result[1] <= call.arg[1]

\* ---- C26 ----------------------------------------------------------------------
\* C26 as stated: after every update with dt >= 0 the displayed peak is at least
\* the snapshot's peak: equal to it when it exceeds the previous displayed peak,
\* and otherwise between the snapshot's peak and the previous displayed peak.
C26_PeakNeverBelowTarget ==
    Returned("update") => (AtLeastTarget /\ JumpsUp /\ DecaysDown)

\* C26, amended: the displayed peak equals the snapshot's peak when that exceeds
\* the previous displayed peak and otherwise does not rise; it is at least the
\* snapshot's peak for dt up to 0.25 s, and for longer frames it can fall below
\* it by less than the f32 spacing at the previous displayed peak.
C26_PeakAboveTargetShortFrames ==
    Returned("update") =>
        /\ JumpsUp
        /\ DecaysDown
        /\ call.arg[3] <= 2 => AtLeastTarget
        /\ call.result[1] + Ulp(call.arg[1]) > call.arg[2]

\* a displayed peak of 1.0 decays towards a snapshot peak of 2^-27 in a frame of
\* 0.25 s and arrives at 0.5
C26_Witness ==
    /\ Returned("update")
    /\ call.arg = <<F32One, 8, 2>>
    /\ call.result[1] = F32One \div 2

\* ==== the bin ranges of the bands =================================================
\* ---- C27 ----------------------------------------------------------------------
\* C27: for every band, 0 <= bin_low, bin_high >= bin_low + 1 and
\* bin_high <= useful_bins - 1 = 255: every band averages at least one bin and
\* reads no bin outside the usable ones.
C27_BinRangeWithinUsable ==
    Returned("bin_range") =>
        /\ 0 <= call.result[1]
        /\ call.result[2] >= call.result[1] + 1
        /\ call.result[2] <= useful_bins - 1
        /\ useful_bins - 1 = 255

\* the lowest band, narrower than one bin, reads bins 0..1, and the highest
\* band ends at the last usable bin at most
C27_Witness ==
    /\ Returned("bin_range")
    /\ call.arg = <<0, NUM_BANDS - 1>>
    /\ call.result[1] = 0
    /\ call.result[2] = 1
    /\ call.result[3] + 1 <= call.result[4]

\* ---- C28 ----------------------------------------------------------------------
\* C28: no two different bands have the same bin range [bin_low, bin_high].
C28_BinRangesDistinct ==
    (Returned("bin_range") /\ call.arg[1] # call.arg[2]) =>
        <<call.result[1], call.result[2]>> # <<call.result[3], call.result[4]>>

\* ==== MidiVolumeApp::update and the monitored sink (app.rs 615-628) ===============
\* frames of MidiVolumeApp::update in the runs of the application
MaxAppFrames == 3

\* MidiVolumeApp::new (app.rs 125-160) has returned: start(default_sink) has
\* spawned thread 1, last_spectrum_sink_name is the configured name, and the
\* settings panel shows any name.  The history records whether the shown name
\* was edited in the frame before, or differs at first (edited), how many times (changes), and
\* for the running frame whether the comparison found a difference (differed), the
\* threads spawned before it (spawned_at_check) and at get_data() (seen_spawned)
AppInit ==
    /\ \E default_sink \in SinkNames :
          th = [t \in Threads |->
                   IF t = 1
                   THEN [ThreadNone EXCEPT !.pc = "open",
                                           !.source_name = get_monitor_source(default_sink)]
                   ELSE ThreadNone]
    /\ \E last \in SinkNames, cfg \in SinkNames :
          app = [pc |-> "check",
                 last_spectrum_sink_name |-> last,
                 cfg_spectrum_sink_name |-> cfg,
                 edited |-> last # cfg,
                 changes |-> IF last # cfg THEN 1 ELSE 0,
                 differed |-> FALSE,
                 spawned_at_check |-> 1,
                 seen_spawned |-> 1]
    /\ data = [SpectrumDataDefault EXCEPT !.running = TRUE]
    /\ data_lock = 0
    /\ stop_flag = FALSE
    /\ handle = 1
    /\ opc = "idle"
    /\ caller = "none"
    /\ sink_name = ""
    /\ spectrum_data = SpectrumDataDefault
    /\ visualizer_state = VisualizerStateDefault
    /\ spawned = 1
    /\ last_op = "start"
    /\ data_hop = DataHopDefault
    /\ frames = 0
    /\ got_info = GotInfo(DataHopDefault, "new", 0)
    /\ capture = NotRun
    /\ call = NotRun
    /\ stop_lock = 0

AppCheckSinkName_forget ==
    /\ app.pc = "check"
    /\ frames < MaxAppFrames
    /\ LET differs == app.last_spectrum_sink_name # app.cfg_spectrum_sink_name
       IN app' = [app EXCEPT !.pc = IF differs THEN "start" ELSE "get_data",
                             !.differed = differs,
                             !.spawned_at_check = spawned]
    /\ UNCHANGED <<analyzerShared, handle, th, opc, ownerLocals, uiVars, spawned,
                   last_op, capture, call, stop_lock>>

\* lines 616-617: the comparison, and last_spectrum_sink_name = the shown name
AppCheckSinkName ==
    /\ app.pc = "check"
    /\ frames < MaxAppFrames
    /\ LET differs == app.last_spectrum_sink_name # app.cfg_spectrum_sink_name
       IN app' = [app EXCEPT !.pc = IF differs THEN "start" ELSE "get_data",
                             !.last_spectrum_sink_name =
                                 IF differs THEN app.cfg_spectrum_sink_name ELSE @,
                             !.differed = differs,
                             !.spawned_at_check = spawned]
    /\ UNCHANGED <<analyzerShared, handle, th, opc, ownerLocals, uiVars, spawned,
                   last_op, capture, call, stop_lock>>

\* line 618: self.spectrum_analyzer.start(&self.ui_state.cfg_spectrum_sink_name),
\* which runs through the steps of start() before the frame goes on
AppCallStart ==
    /\ app.pc = "start"
    /\ opc = "idle"
    /\ spawned < MaxStarts
    /\ opc' = "stop_flag"
    /\ caller' = "start"
    /\ sink_name' = app.cfg_spectrum_sink_name
    /\ app' = [app EXCEPT !.pc = "started"]
    /\ UNCHANGED <<analyzerShared, handle, th, uiVars, spawned, last_op, capture,
                   call, stop_lock>>

\* line 628: self.ui_state.spectrum_data = self.spectrum_analyzer.get_data()
AppGetData ==
    /\ app.pc \in {"started", "get_data"}
    /\ GetData
    /\ frames' = frames + 1
    /\ app' = [app EXCEPT !.pc = "render", !.seen_spawned = spawned]
    /\ UNCHANGED <<analyzerShared, handle, th, opc, ownerLocals, visualizer_state,
                   spawned, last_op, capture, call, stop_lock>>

\* lines 633-640 with the settings tab shown, panels/settings.rs 851-858: the
\* combo box leaves the shown name or sets it to `name`; the frame ends
AppRenderSettings(name) ==
    /\ app.pc = "render"
    /\ app' = [app EXCEPT !.pc = "check",
                          !.cfg_spectrum_sink_name = name,
                          !.edited = (name # app.cfg_spectrum_sink_name),
                          !.changes = IF name # app.cfg_spectrum_sink_name
                                      THEN @ + 1 ELSE @]
    /\ UNCHANGED <<analyzerShared, handle, th, opc, ownerLocals, uiVars, spawned,
                   last_op, capture, call, stop_lock>>

\* the steps of the start() a frame has called
AppStartSteps ==
    \/ StopSetFlag
    \/ StopSetRunning
    \/ StopJoin
    \/ StartResetFlag
    \/ StartSpawn
    \/ StartSetRunning

AppFrameNext ==
    \/ AppCheckSinkName
    \/ AppCallStart
    \/ AppGetData
    \/ \E name \in SinkNames : AppRenderSettings(name)

AppNext ==
    \/ AppFrameNext
    \/ AppStartSteps
    \/ CaptureNext

\* The application's frames with the settings tab shown, and the capture threads.
AppSpec == AppInit /\ [][AppNext]_vars

\* the frame is past the comparison of the names
PastCheck == app.pc \in {"start", "started", "get_data", "render"}

\* ---- C29 ----------------------------------------------------------------------
\* C29: a frame restarts the analyzer exactly when the shown sink name was
\* changed since the last comparison, once per change and with the new name, it
\* does not restart it when the name is unchanged, and get_data() of the same
\* frame is read after the restart has returned.
C29_RestartOncePerChange ==
    /\ PastCheck => app.differed = app.edited
    /\ spawned > app.spawned_at_check => (app.differed /\ spawned = app.spawned_at_check + 1)
    /\ app.pc = "render" =>
          /\ spawned = app.spawned_at_check + (IF app.differed THEN 1 ELSE 0)
          /\ spawned = 1 + app.changes
          /\ app.seen_spawned = spawned
          /\ app.last_spectrum_sink_name = app.cfg_spectrum_sink_name
          /\ app.differed =>
                /\ handle = spawned
                /\ th[spawned].pc # "done" =>
                       th[spawned].source_name =
                           get_monitor_source(app.cfg_spectrum_sink_name)
                /\ got_info.after = "start"
                /\ opc = "idle"

\* a frame has restarted the analyzer after an edit, and the frame after it, with
\* the name unchanged, has read get_data() without another restart
C29_Witness ==
    /\ app.pc = "render"
    /\ ~app.differed
    /\ app.changes = 1
    /\ spawned = 2
    /\ frames = MaxAppFrames
    /\ th[1].pc = "done"

\* ==== the mute buttons of the sink faders (app.rs 198-363) ========================
\* MIDI messages processed in the runs of the mute buttons
MaxMidiMessages == 4

\* the sinks shown, by ui_index (counted from 1), the CC of each one's fader (the
\* keys of cc_to_sink_index and cc_mapping) and a CC that is no sink's fader
SinkIndices == {1, 2}
FaderCCs == {0, 1}
UnmappedCC == 7
cc_to_sink_index == (0 :> 1) @@ (1 :> 2)
\* mute_button_mapping: the CC of a mute button to the CC of its target fader
mute_button_mapping == (48 :> 0) @@ (49 :> 1) @@ (50 :> UnmappedCC)
MuteButtons == DOMAIN mute_button_mapping
\* fader positions a message can carry, and the sink volumes at construction
FaderValues == {0, 64, 127}
InitialVolumes == (1 :> 50) @@ (2 :> 100)

\* lines 13, 218, 330: ((value as f32) * MIDI_TO_PERCENT_FACTOR) as u8; for every
\* value 0..127 the truncated f32 product is the integer quotient
midi_to_percent(value) == (value * 100) \div 127

\* lines 164-170: ((current_volume as f32 / 100.0) * 127.0) as u8
percent_to_midi(volume) == (volume * 127) \div 100

\* a thread spawned to call set_volume_for_sink(target, percent) under the
\* pipewire lock: the message that spawned it, the sink and the volume
SetVolume(a, ui_index, percent) ==
    a.set_volume_threads \cup {<<a.messages + 1, ui_index, percent>>}

toggle_sink_mute_zero(a, ui_index, button_cc) ==
    IF a.system_muted[ui_index]
    THEN [a EXCEPT !.system_fader_values[ui_index] = 0,
                   !.system_muted[ui_index] = FALSE,
                   !.led[button_cc] = FALSE,
                   !.set_volume_threads = SetVolume(a, ui_index, 0)]
    ELSE [a EXCEPT !.system_muted_volume[ui_index] = a.system_fader_values[ui_index],
                   !.system_fader_values[ui_index] = 0,
                   !.system_muted[ui_index] = TRUE,
                   !.led[button_cc] = TRUE,
                   !.set_volume_threads = SetVolume(a, ui_index, 0)]

\* lines 317-363
toggle_sink_mute(a, ui_index, button_cc) ==
    IF a.system_muted[ui_index]
    THEN LET previous_volume == a.system_muted_volume[ui_index]
         IN [a EXCEPT !.system_fader_values[ui_index] = previous_volume,
                      !.system_muted[ui_index] = FALSE,
                      !.led[button_cc] = FALSE,
                      !.set_volume_threads =
                          SetVolume(a, ui_index, midi_to_percent(previous_volume))]
    ELSE LET current_volume == a.system_fader_values[ui_index]
         IN [a EXCEPT !.system_muted_volume[ui_index] = current_volume,
                      !.system_fader_values[ui_index] = 0,
                      !.system_muted[ui_index] = TRUE,
                      !.led[button_cc] = TRUE,
                      !.set_volume_threads = SetVolume(a, ui_index, 0)]

\* lines 284-299, for a target that is a sink's fader or no fader at all
handle_mute_button(a, button_cc, target_cc) ==
    IF target_cc \in DOMAIN cc_to_sink_index
       /\ cc_to_sink_index[target_cc] <= Len(a.system_muted)
    THEN toggle_sink_mute(a, cc_to_sink_index[target_cc], button_cc)
    ELSE a

\* the history of sink ui_index after a press of its mute button: "muted" after a
\* press while unmuted, with the fader value before it, "unmuted" after the next
\* press if the fader was not changed in between, "other" otherwise
PressHistory(a, target_cc) ==
    IF target_cc \notin DOMAIN cc_to_sink_index
    THEN a.history
    ELSE LET ui_index == cc_to_sink_index[target_cc]
             was == a.history[ui_index]
         IN [a.history EXCEPT ![ui_index] =
                IF ~a.system_muted[ui_index]
                THEN [last |-> "muted", before |-> a.system_fader_values[ui_index]]
                ELSE [was EXCEPT !.last = IF was.last = "muted" THEN "unmuted"
                                          ELSE "other"]]

\* MidiVolumeApp::new, lines 162-170, over UiState::new: the faders at the sinks'
\* volumes, nothing muted
MuteInit ==
    /\ AnalyzerInit
    /\ capture = NotRun
    /\ call = NotRun
    /\ LET volumes == InitialVolumes
       IN app = [system_fader_values |-> [i \in SinkIndices |-> percent_to_midi(volumes[i])],
                 system_muted |-> [i \in SinkIndices |-> FALSE],
                 system_muted_volume |-> [i \in SinkIndices |-> 0],
                 led |-> [b \in MuteButtons |-> FALSE],
                 sink_volume |-> volumes,
                 set_volume_threads |-> {},
                 messages |-> 0,
                 history |-> [i \in SinkIndices |-> [last |-> "none", before |-> 0]]]

\* process_midi_messages, lines 207-214: a mute button is pressed (value > 0)
MidiMuteButton(button_cc) ==
    /\ app.messages < MaxMidiMessages
    /\ LET target_cc == mute_button_mapping[button_cc]
           pressed == handle_mute_button(app, button_cc, target_cc)
       IN app' = [pressed EXCEPT !.messages = @ + 1,
                                 !.history = PressHistory(app, target_cc)]
    /\ UNCHANGED <<analyzerShared, handle, th, opc, ownerLocals, uiVars, spawned,
                   last_op, capture, call, stop_lock>>

\* lines 216-260: a sink's fader is moved and the message passes the debounce
MidiFader(cc, value) ==
    /\ app.messages < MaxMidiMessages
    /\ LET ui_index == cc_to_sink_index[cc]
       IN app' = [app EXCEPT !.system_fader_values[ui_index] = value,
                             !.set_volume_threads =
                                 SetVolume(app, ui_index, midi_to_percent(value)),
                             !.messages = @ + 1,
                             !.history[ui_index].last = "other"]
    /\ UNCHANGED <<analyzerShared, handle, th, opc, ownerLocals, uiVars, spawned,
                   last_op, capture, call, stop_lock>>

\* a spawned thread takes the pipewire lock and sets the sink's volume
SetVolumeForSink ==
    /\ \E thread \in app.set_volume_threads :
          app' = [app EXCEPT !.sink_volume[thread[2]] = thread[3],
                             !.set_volume_threads = @ \ {thread}]
    /\ UNCHANGED <<analyzerShared, handle, th, opc, ownerLocals, uiVars, spawned,
                   last_op, capture, call, stop_lock>>

MuteNext ==
    \/ \E button_cc \in MuteButtons : MidiMuteButton(button_cc)
    \/ \E cc \in FaderCCs, value \in FaderValues : MidiFader(cc, value)
    \/ SetVolumeForSink

\* The mute buttons and the faders of the sinks.
MuteSpec == MuteInit /\ [][MuteNext]_vars

\* ---- C30 ----------------------------------------------------------------------
\* C30: a press of a sink's mute button while unmuted saves the fader value, sets
\* the fader to 0 and sets the muted flag; the next press, with no fader change
\* in between, restores the fader to the saved value and clears the flag.
C30_MuteUnmuteIdentity ==
    \A ui_index \in SinkIndices :
        LET h == app.history[ui_index]
        IN /\ h.last = "muted" =>
                 /\ app.system_muted[ui_index]
                 /\ app.system_fader_values[ui_index] = 0
                 /\ app.system_muted_volume[ui_index] = h.before
           /\ h.last = "unmuted" =>
                 /\ ~app.system_muted[ui_index]
                 /\ app.system_fader_values[ui_index] = h.before

\* sink 1 was muted at fader value 63 and unmuted again with the fader untouched,
\* while the fader of sink 2 was moved
C30_Witness ==
    /\ app.history[1] = [last |-> "unmuted", before |-> 63]
    /\ app.system_fader_values[1] = 63
    /\ ~app.system_muted[1]
    /\ app.history[2].last = "other"

====
